---- MODULE Spec2Model ----
(***************************************************************************)
(* litteratureaudio.com ripper: the crawl state machine (iter_items), the  *)
(* folder path resolver (_determine_folder_paths), the legacy pipeline run *)
(* by the CLI (pipeline.py), the file writer (download_file) and the       *)
(* download side of one item (download_item).                              *)
(*                                                                         *)
(* Names (titles, authors, folder names) are sequences of one-character    *)
(* strings, so that sanitize_filename, str.lower and str.split act on      *)
(* characters as the Python code does.  A URL is a triple                  *)
(* <<kind, n, frag>>; normalize_url drops the fragment.  A path is a       *)
(* sequence of names.                                                      *)
(***************************************************************************)
EXTENDS Integers, Sequences, FiniteSets, TLC

VARIABLES
    site,                \* page -> the content the web site serves for it ({} until first fetched)
    max_pages,           \* args.max_pages
    queue,               \* iter_items: deque of pending URLs
    seen,                \* iter_items: URLs already dequeued
    collection_map,      \* iter_items: child URL -> collection name
    group_map,           \* iter_items: child URL -> listing name
    author_prefixed_map, \* iter_items: child URL -> "Author - Project"
    pc,                  \* position of the crawl generator: "main" (outer loop), "listing" (listing walker)
    walk,                \* locals of the listing walker (current_url, page_count, group_name, page_type, html)
    yielded,             \* items yielded so far, in order
    fetch_log,           \* every fetch_html call so far (the URL requested), in order
    wlog,                \* every context-map write so far: [url, key, val, by]
    appended,            \* every queue entry so far, the start list first: [url, by]
    res,                 \* resolver: the item under resolution and its FolderPaths
    fs,                  \* file writer: names existing in the destination directory
    written,             \* file writer: file names written by download_file, in order
    run,                 \* legacy pipeline run (pipeline.py run_pipeline)
    dl,                  \* downloader_pipeline.download_item: flags, disk, registry, the call in progress
    registry,            \* DownloadRegistry shared by the worker threads, and the workers' positions
    classified,          \* detect_page_type: the (url, html) given, the type returned, the handler taken
    loop_more,           \* load_more_tracks: its locals and the "more tracks" pages it requested
    extraction,          \* extract_collection_urls: the page given, the tiers evaluated, the result
    writers,             \* concurrent download_file calls: the directory and each worker's position
    names                \* names of crawled pages on their way from the page to the folder paths

vars == <<site, max_pages, queue, seen, collection_map, group_map, author_prefixed_map,
          pc, walk, yielded, fetch_log, wlog, appended, res, fs, written, run, dl,
          registry, classified, loop_more, extraction, writers, names>>

other_vars == <<res, fs, written, run, dl, registry, classified, loop_more, extraction, writers, names>>

crawl_vars == <<site, max_pages, queue, seen, collection_map, group_map,
                author_prefixed_map, pc, walk, yielded, fetch_log, wlog, appended>>

\* None and the empty string: both are falsy wherever the code tests them
None == <<>>

(***************************************************************************)
(* Strings                                                                 *)
(***************************************************************************)
max_length == 180

COLON_TOKEN == <<"C","O","L","O","N","_","T","O","K","E","N">>
untitled == <<"u","n","t","i","t","l","e","d">>
INVALID_CHARS == {"<", ">", ":", "\"", "/", "\\", "|", "?", "*"}
WHITESPACE == {" ", "\t", "\n"}
SEP == <<" ", "-", " ">>
AUTEURS_DIVERS == <<"a","u","t","e","u","r","s"," ","d","i","v","e","r","s">>
AuteursDiversPrefix == <<"A","u","t","e","u","r","s"," ","d","i","v","e","r","s"," ","-"," ">>

RECURSIVE Concat(_, _, _)
\* ''.join(pieces[lo..hi]), by halves
Concat(pieces, lo, hi) ==
    IF lo > hi THEN <<>>
    ELSE IF lo = hi THEN pieces[lo]
    ELSE LET mid == (lo + hi) \div 2
         IN Concat(pieces, lo, mid) \o Concat(pieces, mid + 1, hi)

\* str.replace(pat, rep): every occurrence (the patterns sanitize_filename replaces, one
\* character or COLON_TOKEN, cannot overlap themselves)
ReplaceAll(s, pat, rep) ==
    LET at == {i \in 1..(Len(s) - Len(pat) + 1) : SubSeq(s, i, i + Len(pat) - 1) = pat}
        pieces == [i \in 1..Len(s) |->
                      IF i \in at THEN rep
                      ELSE IF \E j \in at : j < i /\ i < j + Len(pat) THEN <<>>
                      ELSE <<s[i]>>]
    IN IF at = {} THEN s ELSE Concat(pieces, 1, Len(s))

\* re.sub(r'[...]', '', s)
RemoveChars(s, bad) ==
    IF \A i \in 1..Len(s) : s[i] \notin bad THEN s
    ELSE Concat([i \in 1..Len(s) |-> IF s[i] \in bad THEN <<>> ELSE <<s[i]>>], 1, Len(s))

\* re.sub(r'\s+', ' ', s): one ' ' for every run of whitespace
CollapseWs(s) ==
    IF \A i \in 1..Len(s) : s[i] \notin WHITESPACE THEN s
    ELSE Concat([i \in 1..Len(s) |->
                    IF s[i] \notin WHITESPACE THEN <<s[i]>>
                    ELSE IF i < Len(s) /\ s[i + 1] \in WHITESPACE THEN <<>>
                    ELSE <<" ">>], 1, Len(s))

RECURSIVE LStrip(_)
LStrip(s) == IF s # <<>> /\ Head(s) \in WHITESPACE THEN LStrip(Tail(s)) ELSE s

RECURSIVE RStrip(_)
RStrip(s) ==
    IF s # <<>> /\ s[Len(s)] \in WHITESPACE THEN RStrip(SubSeq(s, 1, Len(s) - 1)) ELSE s

\* str.strip()
Strip(s) == RStrip(LStrip(s))

\* index of the last ' ' of s, 0 when there is none
LastSpace(s) ==
    IF \E i \in 1..Len(s) : s[i] = " "
    THEN CHOOSE i \in 1..Len(s) : s[i] = " " /\ \A j \in (i + 1)..Len(s) : s[j] # " "
    ELSE 0

\* cut = name[:max_length]; cut.rsplit(' ', 1)[0] when cut holds a space
Truncate(s, n) ==
    IF Len(s) > n
    THEN LET cut == SubSeq(s, 1, n)
         IN IF LastSpace(cut) > 0 THEN SubSeq(cut, 1, LastSpace(cut) - 1) ELSE cut
    ELSE s

sanitize_filename(name) ==
    IF name = None \/ name = <<>> THEN untitled
    ELSE LET n1 == ReplaceAll(name, <<":">>, COLON_TOKEN)
             n2 == ReplaceAll(n1, <<"_">>, <<" ">>)
             n3 == ReplaceAll(n2, COLON_TOKEN, <<"_">>)
             n4 == RemoveChars(n3, INVALID_CHARS)
             n5 == Strip(CollapseWs(n4))
             n6 == Truncate(n5, max_length)
         IN IF n6 = <<>> THEN untitled ELSE n6

DigitChar(d) ==
    CASE d = 0 -> "0" [] d = 1 -> "1" [] d = 2 -> "2" [] d = 3 -> "3" [] d = 4 -> "4"
      [] d = 5 -> "5" [] d = 6 -> "6" [] d = 7 -> "7" [] d = 8 -> "8" [] OTHER -> "9"

RECURSIVE Str(_)
\* f"{i}"
Str(i) == IF i < 10 THEN <<DigitChar(i)>> ELSE Str(i \div 10) \o <<DigitChar(i % 10)>>

LowerChar(c) ==
    CASE c = "A" -> "a" [] c = "B" -> "b" [] c = "D" -> "d" [] c = "T" -> "t"
      [] c = "U" -> "u" [] c = "G" -> "g" [] c = "R" -> "r" [] c = "V" -> "v"
      [] OTHER -> c

\* str.lower()
Lower(s) == [i \in 1..Len(s) |-> LowerChar(s[i])]

\* pat in s
Contains(s, pat) ==
    \E i \in 1..(Len(s) - Len(pat) + 1) : SubSeq(s, i, i + Len(pat) - 1) = pat

\* s.split(pat, 1)[-1] when pat in s: what follows the first occurrence of pat
AfterFirst(s, pat) ==
    LET i == CHOOSE k \in 1..(Len(s) - Len(pat) + 1) :
                 /\ SubSeq(s, k, k + Len(pat) - 1) = pat
                 /\ \A j \in 1..(k - 1) : SubSeq(s, j, j + Len(pat) - 1) # pat
    IN SubSeq(s, i + Len(pat), Len(s))

(***************************************************************************)
(* URLs and the web site                                                   *)
(***************************************************************************)
\* the pages of the site: works, listing pages, and the works that may be collections
WorkIds == {1, 2, 3}
ListingIds == {1, 2}
CollectionIds == {1, 2}
\* bounds: links per page, length of the start list, fetch_html calls per run
MaxLinks == 2
MaxStart == 1
MaxFetch == 3

\* --max-pages default=0: no page cap
default_max_pages == 0

WorkUrl(n) == <<"work", n, "">>
ListingUrl(n) == <<"auteur", n, "">>

\* normalize_url: drop the fragment
normalize_url(url) == <<url[1], url[2], "">>

\* cli.load_urls: the start list the crawl is given
load_urls(urls) == [i \in 1..Len(urls) |-> normalize_url(urls[i])]

\* the href a page uses to link to work n (a link may carry a fragment)
RawLink(n) == <<"work", n, IF n = 3 THEN "a.html" ELSE "">>

RawUrls == {RawLink(n) : n \in WorkIds} \cup {ListingUrl(n) : n \in ListingIds}

\* sorted(): URLs of one kind order by their number
RECURSIVE SortedUrls(_)
SortedUrls(S) ==
    IF S = {} THEN <<>>
    ELSE LET m == CHOOSE u \in S : \A v \in S : u[2] <= v[2]
         IN <<m>> \o SortedUrls(S \ {m})

\* the titles the page of work n may carry
Titles(n) == IF n = 1 THEN {<<"T">>} ELSE IF n = 2 THEN {<<"T">>, <<"U">>} ELSE {<<"U">>}
ListingNameOf(n) == IF n = 1 THEN <<"G">> ELSE <<"H">>
\* a work page whose URL holds no version marker, and the page of the same title whose
\* URL differs from it by the marker alone
PlainUrl == <<"work", 4, "">>
VersionedUrl == <<"work", 5, "">>
VERSION_MARKER == <<"-","v","e","r","s","i","o","n","-">>

\* slug_from_url: the last path segment of the URL, without ".html"
slug_from_url(url) ==
    IF url[1] = "work"
    THEN CASE url[2] = 1 -> <<"w","1">>
           [] url[2] = 2 -> <<"w","2">>
           [] url[2] = 3 -> <<"w","3">>
           [] url[2] = 4 -> <<"n">>
           [] url[2] = 5 -> <<"n">> \o VERSION_MARKER \o <<"2">>
           [] OTHER -> <<"w">> \o Str(url[2])
    ELSE IF url[2] = 1 THEN <<"g">> ELSE <<"2">>

Authors == {None, <<"B">>, <<"A","u","t","e","u","r","s"," ","D","i","v","e","r","s">>}

Failed == [fail |-> TRUE]

\* what fetch_html + parse_work_page can return for a work URL; extract_collection_urls
\* keeps a link only if full_url != page_url, so a page does not list itself
WorkContents(n) ==
    {Failed}
    \cup {[fail |-> FALSE, title |-> t, author |-> <<"B">>, reader |-> None,
           has_tracks |-> FALSE, collection_urls |-> <<>>] : t \in Titles(n)}
    \cup {[fail |-> FALSE, title |-> t, author |-> a, reader |-> None,
           has_tracks |-> FALSE, collection_urls |-> SortedUrls({RawLink(k) : k \in ks})] :
            t \in Titles(n),
            a \in (IF n \in CollectionIds THEN Authors ELSE {}),
            ks \in {x \in SUBSET (WorkIds \ {n}) : Cardinality(x) \in 1..MaxLinks}}

\* what fetch_html can return for a listing URL: the display name, the work links
\* (extract_listing_urls), the next-page link (find_next_page)
ListingContents(n) ==
    {Failed}
    \cup {[fail |-> FALSE, name |-> ListingNameOf(n),
           links |-> SortedUrls({WorkUrl(k) : k \in ks}), next |-> nx] :
            ks \in {x \in SUBSET (WorkIds) : Cardinality(x) <= MaxLinks},
            nx \in {None} \cup {ListingUrl(k) : k \in ListingIds}}

Contents(url) == IF url[1] = "work" THEN WorkContents(url[2]) ELSE ListingContents(url[2])

\* detect_page_type, by the shape of the URL then by the page text
detect_page_type(url, html) ==
    IF url[1] = "auteur" THEN "author_listing"
    ELSE IF url[1] = "voix" THEN "voice_listing"
    ELSE IF url[1] = "membre" THEN "member_listing"
    ELSE IF url[1] = "piste" THEN "track"
    ELSE IF url[1] = "work" THEN "work"
    ELSE IF /\ "entry_title" \in DOMAIN html
            /\ html.entry_title
            /\ html.auteur_link THEN "author_listing"
    ELSE "unknown"

Get(m, k) == IF k \in DOMAIN m THEN m[k] ELSE None
\* a map that keeps the entry a key already has
PutFirst(m, k, v) ==
    [x \in DOMAIN m \cup {k} |-> IF x \in DOMAIN m THEN m[x] ELSE v]

\* m[k] = v
Put(m, k, v) == [x \in DOMAIN m \cup {k} |-> IF x = k THEN v ELSE m[x]]

(***************************************************************************)
(* scraper.py iter_items: the crawl                                        *)
(***************************************************************************)
NoWalk == [current_url |-> None, page_count |-> 0, group_name |-> None,
           page_type |-> "", html |-> Failed]

\* fetch_html(url): the page the site serves for url; a page keeps the content it
\* served first
Served(url) ==
    IF site[normalize_url(url)] = {} THEN Contents(normalize_url(url))
    ELSE site[normalize_url(url)]

Fetch(url, c) ==
    /\ Len(fetch_log) < MaxFetch
    /\ c \in Served(url)
    /\ site' = [site EXCEPT ![normalize_url(url)] = {c}]
    /\ fetch_log' = Append(fetch_log, url)

\* queue.appendleft(u): the pending URLs kept as a stack
RECURSIVE EnqueueFront(_, _, _)
EnqueueFront(q, urls, sn) ==
    IF urls = <<>> THEN q
    ELSE EnqueueFront(IF normalize_url(Head(urls)) \in sn THEN q
                      ELSE <<normalize_url(Head(urls))>> \o q,
                      Tail(urls), sn)

\* queue.append(u) for every u of urls, in order, unless u is in seen
RECURSIVE Enqueue(_, _, _)
Enqueue(q, urls, sn) ==
    IF urls = <<>> THEN q
    ELSE Enqueue(IF normalize_url(Head(urls)) \in sn THEN q
                 ELSE Append(q, normalize_url(Head(urls))),
                 Tail(urls), sn)

\* the entries Enqueue adds to the queue, as log entries
RECURSIVE Appends(_, _, _)
Appends(urls, sn, by) ==
    IF urls = <<>> THEN <<>>
    ELSE (IF normalize_url(Head(urls)) \in sn THEN <<>>
          ELSE <<[url |-> normalize_url(Head(urls)), by |-> by]>>)
         \o Appends(Tail(urls), sn, by)

\* the map left as it is: no entry recorded for the urls
PutNone(m, urls, v) == m

\* m[normalize_url(u)] = v for every u of urls
RECURSIVE PutAll(_, _, _)
PutAll(m, urls, v) ==
    IF urls = <<>> THEN m
    ELSE PutAll(Put(m, normalize_url(Head(urls)), v), Tail(urls), v)

\* the context writes of one parent, as log entries
Writes(urls, key, v, by) ==
    [i \in 1..Len(urls) |-> [url |-> normalize_url(urls[i]), key |-> key, val |-> v, by |-> by]]

\* seen.add dropped: the visited set never grows
seen_add_dropped(sn, url) == sn

\* seen.add(url)
seen_add(sn, url) == sn \cup {url}

\* while queue: url = queue.popleft(); if url in seen: continue
SkipSeen ==
    /\ pc = "main"
    /\ queue # <<>>
    /\ Head(queue) \in seen
    /\ queue' = Tail(queue)
    /\ UNCHANGED <<site, max_pages, seen, collection_map, group_map, author_prefixed_map,
                   pc, walk, yielded, fetch_log, wlog, appended>>
    /\ UNCHANGED other_vars

\* fetch_html raises and the exception leaves the generator: the crawl ends
FetchFailedStops ==
    /\ pc = "main"
    /\ queue # <<>>
    /\ Head(queue) \notin seen
    /\ \E c \in Served(Head(queue)) :
        /\ c.fail
        /\ Fetch(Head(queue), c)
    /\ queue' = <<>>
    /\ seen' = seen_add(seen, Head(queue))
    /\ UNCHANGED <<max_pages, collection_map, group_map, author_prefixed_map, pc, walk,
                   yielded, wlog, appended>>
    /\ UNCHANGED other_vars

\* fetch_html raises: logger.error, continue
FetchFailed ==
    /\ pc = "main"
    /\ queue # <<>>
    /\ Head(queue) \notin seen
    /\ \E c \in Served(Head(queue)) :
        /\ c.fail
        /\ Fetch(Head(queue), c)
    /\ queue' = Tail(queue)
    /\ seen' = seen_add(seen, Head(queue))
    /\ UNCHANGED <<max_pages, collection_map, group_map, author_prefixed_map, pc, walk,
                   yielded, wlog, appended>>
    /\ UNCHANGED other_vars

\* a listing page is dequeued: the listing walker starts on it
StartListing ==
    /\ pc = "main"
    /\ queue # <<>>
    /\ Head(queue) \notin seen
    /\ \E c \in Served(Head(queue)) :
        /\ ~c.fail
        /\ detect_page_type(Head(queue), c) \in {"author_listing", "voice_listing", "member_listing"}
        /\ Fetch(Head(queue), c)
        /\ walk' = [current_url |-> Head(queue), page_count |-> 0, group_name |-> None,
                    page_type |-> detect_page_type(Head(queue), c), html |-> c]
    /\ queue' = Tail(queue)
    /\ seen' = seen_add(seen, Head(queue))
    /\ pc' = "listing"
    /\ UNCHANGED <<max_pages, collection_map, group_map, author_prefixed_map, yielded, wlog, appended>>
    /\ UNCHANGED other_vars

\* extract_listing_name
extract_listing_name(html, page_type) == html.name

\* group_root as computed for the page the walker is on
ListingGroupRoot(group_name, current_url) ==
    sanitize_filename(IF group_name # None /\ group_name # <<>> THEN group_name
                      ELSE IF slug_from_url(current_url) # <<>> THEN slug_from_url(current_url)
                      ELSE <<"l","i","s","t","i","n","g">>)

\* one iteration of "while current_url": tag and enqueue the works of the page, then
\* follow the next-page link
ListingPage ==
    /\ pc = "listing"
    /\ LET page_count == walk.page_count + 1
           group_name == IF walk.group_name = None
                         THEN extract_listing_name(walk.html, walk.page_type)
                         ELSE walk.group_name
           group_root == ListingGroupRoot(group_name, walk.current_url)
           next_page == walk.html.next
           stop == next_page = None \/ (max_pages # 0 /\ page_count >= max_pages)
       IN /\ group_map' = PutAll(group_map, walk.html.links, group_root)
          /\ wlog' = wlog \o Writes(walk.html.links, "group_root", group_root, walk.current_url)
          /\ queue' = Enqueue(queue, walk.html.links, seen)
          /\ appended' = appended \o Appends(walk.html.links, seen, walk.current_url)
          /\ \/ /\ stop \/ next_page \in seen
                /\ pc' = "main"
                /\ walk' = NoWalk
                /\ UNCHANGED <<site, fetch_log>>
             \/ /\ ~stop /\ next_page \notin seen
                /\ \E c \in Served(next_page) :
                    /\ Fetch(next_page, c)
                    /\ IF c.fail
                       THEN pc' = "main" /\ walk' = NoWalk
                       ELSE /\ pc' = "listing"
                            /\ walk' = [walk EXCEPT !.current_url = next_page,
                                                    !.page_count = page_count,
                                                    !.group_name = group_name,
                                                    !.html = c]
    /\ UNCHANGED <<max_pages, seen, collection_map, author_prefixed_map, yielded>>
    /\ UNCHANGED other_vars

Truthy(x) == x # None /\ x # <<>>

\* a root name taken from the URL slug alone
RootNameFromSlug(title, url) == sanitize_filename(slug_from_url(url))

\* root_name = sanitize_filename(item.title or slug_from_url(item.source_url) or "collection")
RootName(title, url) ==
    sanitize_filename(IF Truthy(title) THEN title
                      ELSE IF slug_from_url(url) # <<>> THEN slug_from_url(url)
                      ELSE <<"c","o","l","l","e","c","t","i","o","n">>)

\* "Auteurs divers" collective projects are always independent
is_multi_author_collective(is_collective_project, author) ==
    is_collective_project /\ Truthy(author) /\ Lower(author) = AUTEURS_DIVERS

\* single-author collective, not from a listing, not nested in another project
is_collective_single_author(is_collective_project, author, group_root, author_prefixed) ==
    is_collective_project /\ Truthy(author) /\ group_root = None /\ author_prefixed = None

\* a single-author collection that starts a new prefix level even when it is nested
ChildAuthorPrefixedFresh(is_collective_project, author, root_name, group_root, author_prefixed) ==
    IF is_multi_author_collective(is_collective_project, author)
    THEN AuteursDiversPrefix \o root_name
    ELSE IF is_collective_project /\ Truthy(author) /\ group_root = None
    THEN sanitize_filename(author) \o SEP \o root_name
    ELSE author_prefixed

\* the author_prefixed value the children of a collection get
ChildAuthorPrefixed(is_collective_project, author, root_name, group_root, author_prefixed) ==
    IF is_multi_author_collective(is_collective_project, author)
    THEN AuteursDiversPrefix \o root_name
    ELSE IF is_collective_single_author(is_collective_project, author, group_root, author_prefixed)
    THEN sanitize_filename(author) \o SEP \o root_name
    ELSE author_prefixed

\* children that never inherit a group_root
ChildGroupRootDropped(is_collective_project, author, group_root) == None

\* children that inherit the group_root whatever the author is
ChildGroupRootInherited(is_collective_project, author, group_root) == group_root

\* the group_root value the children of a collection get
ChildGroupRoot(is_collective_project, author, group_root) ==
    IF is_multi_author_collective(is_collective_project, author) THEN None ELSE group_root

\* a collection item that keeps the context of its URL and is not marked skip_download
CollectionItemUnmarked(url, c, root_name, group_root, author_prefixed, at) ==
    [source_url |-> url, title |-> c.title, author |-> c.author, reader |-> c.reader,
     collection_urls |-> c.collection_urls,
     collection_root |-> root_name, group_root |-> group_root,
     author_prefixed |-> author_prefixed, skip_download |-> FALSE, at |-> at]

\* the item a collection page yields for itself
CollectionItem(url, c, root_name, group_root, author_prefixed, at) ==
    LET icp == TRUE
        multi == is_multi_author_collective(icp, c.author)
        single == is_collective_single_author(icp, c.author, group_root, author_prefixed)
    IN [source_url |-> url, title |-> c.title, author |-> c.author, reader |-> c.reader,
        collection_urls |-> c.collection_urls,
        collection_root |-> root_name,
        group_root |-> IF multi THEN None ELSE group_root,
        author_prefixed |-> IF multi \/ single
                            THEN ChildAuthorPrefixed(icp, c.author, root_name, group_root, author_prefixed)
                            ELSE author_prefixed,
        skip_download |-> TRUE,
        at |-> at]

\* the item a page without children yields
LeafItem(url, c, collection_root, group_root, author_prefixed, at) ==
    [source_url |-> url, title |-> c.title, author |-> c.author, reader |-> c.reader,
     collection_urls |-> <<>>,
     collection_root |-> collection_root, group_root |-> group_root,
     author_prefixed |-> author_prefixed, skip_download |-> FALSE, at |-> at]

\* a work page is dequeued: parse it, read its context from the maps, expand it when it
\* is a collection, yield it
WorkPage ==
    /\ pc = "main"
    /\ queue # <<>>
    /\ Head(queue) \notin seen
    /\ LET url == Head(queue) IN
       \E c \in Served(url) :
        /\ ~c.fail
        /\ detect_page_type(url, c) \in {"work", "track", "unknown"}
        /\ Fetch(url, c)
        /\ seen' = seen_add(seen, url)
        /\ LET collection_root == Get(collection_map, normalize_url(url))
               group_root == Get(group_map, normalize_url(url))
               author_prefixed == Get(author_prefixed_map, normalize_url(url))
               icp == c.has_tracks \/ c.collection_urls # <<>>
               root_name == RootName(c.title, url)
               child_author_prefixed ==
                   ChildAuthorPrefixed(icp, c.author, root_name, group_root, author_prefixed)
               child_group_root == ChildGroupRoot(icp, c.author, group_root)
           IN IF c.collection_urls # <<>>
              THEN /\ collection_map' = PutAll(collection_map, c.collection_urls, root_name)
                   /\ group_map' = IF child_group_root # None
                                   THEN PutAll(group_map, c.collection_urls, child_group_root)
                                   ELSE group_map
                   /\ author_prefixed_map' =
                          IF child_author_prefixed # None
                          THEN PutAll(author_prefixed_map, c.collection_urls, child_author_prefixed)
                          ELSE author_prefixed_map
                   /\ wlog' = wlog
                        \o Writes(c.collection_urls, "collection_root", root_name, url)
                        \o (IF child_group_root # None
                            THEN Writes(c.collection_urls, "group_root", child_group_root, url)
                            ELSE <<>>)
                        \o (IF child_author_prefixed # None
                            THEN Writes(c.collection_urls, "author_prefixed", child_author_prefixed, url)
                            ELSE <<>>)
                   /\ queue' = Enqueue(Tail(queue), c.collection_urls, seen_add(seen, url))
                   /\ appended' = appended \o Appends(c.collection_urls, seen_add(seen, url), url)
                   /\ yielded' = Append(yielded,
                          CollectionItem(url, c, root_name, group_root, author_prefixed, Len(wlog)))
              ELSE /\ queue' = Tail(queue)
                   /\ yielded' = Append(yielded,
                          LeafItem(url, c, collection_root, group_root, author_prefixed, Len(wlog)))
                   /\ UNCHANGED <<collection_map, group_map, author_prefixed_map, wlog, appended>>
    /\ UNCHANGED <<max_pages, pc, walk>>
    /\ UNCHANGED other_vars

(***************************************************************************)
(* downloader_pipeline.py: item name and folder paths                      *)
(***************************************************************************)
DIGITS == {"0", "1", "2", "3", "4", "5", "6", "7", "8", "9"}

\* extract_version_from_url: the number that follows "-version-" in the URL, None when
\* the URL holds no such marker
extract_version_from_url(url) ==
    LET slug == slug_from_url(url)
    IN IF Contains(slug, VERSION_MARKER)
       THEN LET rest == AfterFirst(slug, VERSION_MARKER)
            IN IF rest # <<>> /\ rest[1] \in DIGITS THEN <<rest[1]>> ELSE None
       ELSE None

WORK == <<"w","o","r","k">>
VERSION_OPEN == <<" ","(","V","e","r","s","i","o","n"," ">>

\* item.title or slug_from_url(item.source_url) or "work"
BaseTitle(item) ==
    IF Truthy(item.title) THEN item.title
    ELSE IF slug_from_url(item.source_url) # <<>> THEN slug_from_url(item.source_url)
    ELSE WORK

build_versioned_item_name(item) ==
    LET base_name == sanitize_filename(BaseTitle(item))
        version_num == extract_version_from_url(item.source_url)
        reader_suffix == IF Truthy(item.reader) THEN SEP \o item.reader ELSE <<>>
    IN IF Truthy(version_num)
       THEN base_name \o VERSION_OPEN \o version_num \o reader_suffix \o <<")">>
       ELSE base_name

\* Path: the sequence of folder names below the output directory
output_dir == <<>>
Join(dir, name) == Append(dir, name)

FolderPaths(root_dir, has_collection_dir, collection_dir, item_dir) ==
    [root_dir |-> root_dir, has_collection_dir |-> has_collection_dir,
     collection_dir |-> collection_dir, item_dir |-> item_dir]

\* a single album is placed at the root whatever listing it came from
is_single_album_at_root_any_group(item) ==
    ~Truthy(item.collection_root) /\ Truthy(item.author) /\ ~item.skip_download

\* Case 1: single album at root (not from author download, not from collection)
is_single_album_at_root(item) ==
    /\ ~Truthy(item.collection_root)
    /\ ~Truthy(item.group_root)
    /\ Truthy(item.author)
    /\ ~item.skip_download

\* author_prefixed.split(" - ", 1)[-1] if " - " in author_prefixed else author_prefixed
parent_project_name(author_prefixed) ==
    IF Contains(author_prefixed, SEP) THEN AfterFirst(author_prefixed, SEP) ELSE author_prefixed

is_nested(item) ==
    Truthy(item.collection_root)
    /\ item.collection_root # parent_project_name(item.author_prefixed)

determine_folder_paths(item, item_name, out) ==
    IF Truthy(item.author_prefixed)
    THEN LET parent_dir == Join(out, sanitize_filename(item.author_prefixed))
             nested_dir == Join(parent_dir, sanitize_filename(item.collection_root))
         IN IF item.skip_download /\ is_nested(item)
            THEN FolderPaths(out, TRUE, nested_dir, nested_dir)
            ELSE IF item.skip_download
            THEN FolderPaths(out, TRUE, parent_dir, parent_dir)
            ELSE IF is_nested(item)
            THEN FolderPaths(out, TRUE, nested_dir, Join(nested_dir, item_name))
            ELSE FolderPaths(out, TRUE, parent_dir, Join(parent_dir, item_name))
    ELSE IF is_single_album_at_root(item)
    THEN FolderPaths(out, FALSE, <<>>,
                     Join(out, sanitize_filename(item.author) \o SEP \o item_name))
    ELSE LET root_dir == IF Truthy(item.group_root)
                         THEN Join(out, sanitize_filename(item.group_root))
                         ELSE out
             collection_dir == Join(root_dir, sanitize_filename(item.collection_root))
         IN IF Truthy(item.collection_root)
            THEN FolderPaths(root_dir, TRUE, collection_dir,
                             IF item.skip_download THEN collection_dir
                             ELSE Join(collection_dir, item_name))
            ELSE FolderPaths(root_dir, FALSE, <<>>, Join(root_dir, item_name))

\* downloader_pipeline.download_item, up to the folder paths
download_item(item, out) ==
    LET item_name == build_versioned_item_name(item)
    IN [item |-> item, item_name |-> item_name,
        paths |-> determine_folder_paths(item, item_name, out)]

(***************************************************************************)
(* pipeline.py: the download_item that run_pipeline calls                  *)
(***************************************************************************)
pipeline_download_item(item, out) ==
    LET item_name == sanitize_filename(BaseTitle(item))
        root_dir == IF Truthy(item.group_root)
                    THEN Join(out, sanitize_filename(item.group_root))
                    ELSE out
        collection_dir == Join(root_dir, sanitize_filename(item.collection_root))
    IN [item |-> item, item_name |-> item_name,
        paths |-> IF Truthy(item.collection_root)
                  THEN FolderPaths(root_dir, TRUE, collection_dir,
                                   IF item.skip_download THEN collection_dir
                                   ELSE Join(collection_dir, item_name))
                  ELSE FolderPaths(root_dir, FALSE, <<>>, Join(root_dir, item_name))]

Idle == <<>>

other_idle == res = Idle /\ fs = {} /\ written = <<>> /\ run = Idle /\ dl = Idle /\ registry = Idle /\ classified = Idle /\ loop_more = Idle /\ extraction = Idle /\ writers = Idle /\ names = Idle

StartLists ==
    UNION {[1..n -> RawUrls] : n \in 1..MaxStart}

Init ==
    /\ site = [u \in {normalize_url(r) : r \in RawUrls} |-> {}]
    /\ \E urls \in StartLists :
        /\ queue = load_urls(urls)
        /\ appended = [i \in 1..Len(urls) |-> [url |-> load_urls(urls)[i], by |-> None]]
        \* --max-pages is read by the listing walker alone: no cap (the default), or 1
        /\ max_pages \in IF \E i \in 1..Len(urls) : urls[i][1] = "auteur"
                         THEN {default_max_pages, 1}
                         ELSE {default_max_pages}
    /\ seen = {}
    /\ collection_map = <<>>
    /\ group_map = <<>>
    /\ author_prefixed_map = <<>>
    /\ pc = "main"
    /\ walk = NoWalk
    /\ yielded = <<>>
    /\ fetch_log = <<>>
    /\ wlog = <<>>
    /\ other_idle

Next ==
    \/ SkipSeen
    \/ FetchFailed
    \/ StartListing
    \/ ListingPage
    \/ WorkPage

Spec == Init /\ [][Next]_vars

\* listing pages that give extract_listing_name nothing: no archive-title header, or an
\* empty one
NamelessListings(n) == {[c EXCEPT !.name = None] : c \in ListingContents(n) \ {Failed}}

\* a run started on one listing URL, on a site whose listing pages may lack a name
InitListing ==
    /\ site = [u \in {normalize_url(r) : r \in RawUrls} |->
                  IF u[1] = "auteur" THEN ListingContents(u[2]) \cup NamelessListings(u[2])
                  ELSE {}]
    /\ \E n \in ListingIds :
        /\ queue = load_urls(<<ListingUrl(n)>>)
        /\ appended = <<[url |-> ListingUrl(n), by |-> None]>>
    /\ max_pages \in {default_max_pages, 1}
    /\ seen = {}
    /\ collection_map = <<>>
    /\ group_map = <<>>
    /\ author_prefixed_map = <<>>
    /\ pc = "main"
    /\ walk = NoWalk
    /\ yielded = <<>>
    /\ fetch_log = <<>>
    /\ wlog = <<>>
    /\ other_idle

SpecListing == InitListing /\ [][Next]_vars

(***************************************************************************)
(* The resolver applied to the items a crawl can hand to download_item     *)
(***************************************************************************)
ResolveAuthors ==
    {None, <<"B">>, <<"X"," ","-"," ","Y">>,
     <<"A","u","t","e","u","r","s"," ","D","i","v","e","r","s">>}
ResolveTitles == {<<"T">>, <<"U">>, <<"T",":","U">>}
ItemTitles == {None, <<"T">>, <<"I">>}
Readers == {None, <<"R">>}
Groups == {None, sanitize_filename(<<"G">>)}

AudioItem(title, author, reader, url, collection_root, group_root, author_prefixed, skip) ==
    [source_url |-> url, title |-> title, author |-> author, reader |-> reader,
     collection_root |-> collection_root, group_root |-> group_root,
     author_prefixed |-> author_prefixed, skip_download |-> skip]

\* the prefix a top-level collection by author a titled t writes for its children
TopPrefix(a, t) == ChildAuthorPrefixed(TRUE, a, RootName(t, PlainUrl), None, None)

\* items in the context of an author-prefixed collection titled t1 by author a: the
\* collection itself, a sub-collection titled t2, and the children of either
PrefixedInputs ==
    {[role |-> "top_root",
      item |-> AudioItem(t1, a, r, PlainUrl, RootName(t1, PlainUrl), None, TopPrefix(a, t1), TRUE)] :
        a \in ResolveAuthors \ {None}, t1 \in ResolveTitles, r \in Readers}
    \cup
    {[role |-> "nested_root",
      item |-> AudioItem(t2, a, r, PlainUrl, RootName(t2, PlainUrl), g, TopPrefix(a, t1), TRUE)] :
        a \in ResolveAuthors \ {None}, t1 \in ResolveTitles, t2 \in ResolveTitles,
        r \in Readers, g \in Groups}
    \cup
    {[role |-> "nested_child",
      item |-> AudioItem(ti, a, r, PlainUrl, RootName(t2, PlainUrl), g, TopPrefix(a, t1), FALSE)] :
        a \in ResolveAuthors \ {None}, t1 \in ResolveTitles, t2 \in ResolveTitles,
        ti \in ItemTitles, r \in Readers, g \in Groups}
    \cup
    {[role |-> "top_child",
      item |-> AudioItem(ti, a, r, PlainUrl, RootName(t1, PlainUrl), g, TopPrefix(a, t1), FALSE)] :
        a \in ResolveAuthors \ {None}, t1 \in ResolveTitles,
        ti \in ItemTitles, r \in Readers, g \in Groups}

\* items without author_prefixed: a collection item always carries its collection_root
PlainInputs ==
    {[role |-> "plain",
      item |-> AudioItem(ti, a, r, PlainUrl, c, g, None, skip)] :
        a \in ResolveAuthors, ti \in ItemTitles, r \in Readers, g \in Groups,
        c \in {None} \cup {RootName(t, PlainUrl) : t \in ResolveTitles},
        skip \in {FALSE}}
    \cup
    {[role |-> "plain",
      item |-> AudioItem(t, a, r, PlainUrl, RootName(t, PlainUrl), g, None, TRUE)] :
        a \in ResolveAuthors, t \in ResolveTitles, r \in Readers, g \in Groups}

\* the item resolved k-th: the input, then the page of the same title and context whose
\* URL carries the version marker
ResolveInput(k) == IF k = 1 THEN res.item ELSE [res.item EXCEPT !.source_url = VersionedUrl]

\* downloader_pipeline.download_item resolves the next of the two items
DownloadItem ==
    /\ Len(res.out) < 2
    /\ res' = [res EXCEPT !.out = Append(@, download_item(ResolveInput(Len(res.out) + 1), output_dir))]
    /\ UNCHANGED <<fs, written, run, dl, registry, classified, loop_more, extraction, writers, names>>
    /\ UNCHANGED crawl_vars

\* pipeline.download_item resolves the next of the two items
LegacyDownloadItem ==
    /\ Len(res.legacy) < 2
    /\ res' = [res EXCEPT !.legacy = Append(@, pipeline_download_item(ResolveInput(Len(res.legacy) + 1), output_dir))]
    /\ UNCHANGED <<fs, written, run, dl, registry, classified, loop_more, extraction, writers, names>>
    /\ UNCHANGED crawl_vars

crawl_idle ==
    /\ site = <<>>
    /\ max_pages = default_max_pages
    /\ queue = <<>>
    /\ seen = {}
    /\ collection_map = <<>>
    /\ group_map = <<>>
    /\ author_prefixed_map = <<>>
    /\ pc = "main"
    /\ walk = NoWalk
    /\ yielded = <<>>
    /\ fetch_log = <<>>
    /\ wlog = <<>>
    /\ appended = <<>>

InitResolve ==
    /\ crawl_idle
    /\ \E in \in PrefixedInputs \cup PlainInputs :
        res = [role |-> in.role, item |-> in.item, out |-> <<>>, legacy |-> <<>>]
    /\ fs = {}
    /\ written = <<>>
    /\ run = Idle
    /\ dl = Idle /\ registry = Idle /\ classified = Idle /\ loop_more = Idle /\ extraction = Idle /\ writers = Idle /\ names = Idle

NextResolve ==
    \/ DownloadItem
    \/ LegacyDownloadItem

SpecResolve == InitResolve /\ [][NextResolve]_vars

(***************************************************************************)
(* utils.unique_path and downloader.download_file: files of one directory  *)
(***************************************************************************)
\* bound: download_file calls per run
MaxCalls == 2

\* for i in range(1, 1000)
range_stop == 1000

\* index of the last "." of name, 0 when there is none
LastDot(name) ==
    IF \E i \in 1..Len(name) : name[i] = "."
    THEN CHOOSE i \in 1..Len(name) : name[i] = "." /\ \A j \in (i + 1)..Len(name) : name[j] # "."
    ELSE 0

\* Path.suffix: from the last dot, unless the name starts or ends with it
suffix(name) ==
    IF LastDot(name) > 1 /\ LastDot(name) < Len(name)
    THEN SubSeq(name, LastDot(name), Len(name))
    ELSE <<>>

\* Path.stem
stem(name) == SubSeq(name, 1, Len(name) - Len(suffix(name)))

\* f"{stem} ({i}){suffix}"
candidate(name, i) == stem(name) \o <<" ", "(">> \o Str(i) \o <<")">> \o suffix(name)

\* unique_path(base), dir the names that exist in base.parent
unique_path(dir, base) ==
    IF base \notin dir THEN base
    ELSE IF \E i \in 1..(range_stop - 1) : candidate(base, i) \notin dir
    THEN candidate(base, CHOOSE i \in 1..(range_stop - 1) :
                             /\ candidate(base, i) \notin dir
                             /\ \A j \in 1..(i - 1) : candidate(base, j) \in dir)
    ELSE base

\* the file names servers suggest
RawNames ==
    {<<"a","_","b",".","m","p","3">>, <<"a"," ","b",".","m","p","3">>, <<"c",".","m","p","3">>}

\* a directory that already holds k names colliding with name: name itself and its
\* first k - 1 candidates
Colliding(name, k) ==
    IF k = 0 THEN {} ELSE {name} \cup {candidate(name, i) : i \in 1..(k - 1)}

\* the directories a run may find: empty, or holding few or many colliding names
InitialDirs ==
    {Colliding(sanitize_filename(n), k) :
        n \in RawNames, k \in {0, 1, 2, range_stop - 1, range_stop}}

\* download_file succeeds: the body is written to dest_path + ".part", which then
\* replaces dest_path
DownloadFile ==
    /\ Len(written) < MaxCalls
    /\ \E suggested_filename \in RawNames :
        LET filename == sanitize_filename(suggested_filename)
            dest_path == unique_path(fs, filename)
        IN /\ fs' = fs \cup {dest_path}
           /\ written' = Append(written, [ok |-> TRUE, filename |-> filename,
                                          dest_path |-> dest_path,
                                          existed |-> dest_path \in fs,
                                          colliding |-> Cardinality(fs)])
    /\ UNCHANGED <<res, run, dl, registry, classified, loop_more, extraction, writers, names>>
    /\ UNCHANGED crawl_vars

\* all max_attempts attempts raise: the .part file is unlinked, None is returned
DownloadFileFails ==
    /\ Len(written) < MaxCalls
    /\ \E suggested_filename \in RawNames :
        written' = Append(written, [ok |-> FALSE,
                                    filename |-> sanitize_filename(suggested_filename),
                                    dest_path |-> None, existed |-> FALSE,
                                    colliding |-> Cardinality(fs)])
    /\ UNCHANGED <<res, run, fs, dl, registry, classified, loop_more, extraction, writers, names>>
    /\ UNCHANGED crawl_vars

InitFile ==
    /\ crawl_idle
    /\ res = Idle
    /\ run = Idle
    /\ dl = Idle /\ registry = Idle /\ classified = Idle /\ loop_more = Idle /\ extraction = Idle /\ writers = Idle /\ names = Idle
    /\ fs \in InitialDirs
    /\ written = <<>>

NextFile ==
    \/ DownloadFile
    \/ DownloadFileFails

SpecFile == InitFile /\ [][NextFile]_vars

(***************************************************************************)
(* pipeline.py: iter_items and run_pipeline, the run the CLI starts        *)
(***************************************************************************)
\* the site of the run: an author listing of two works, the second a collective project
\* of three children by "Auteurs divers"
CliListing == ListingUrl(1)
CliWorks == {11, 12, 13, 14, 15}
CliUrls == {CliListing} \cup {WorkUrl(n) : n \in CliWorks}

CliPage(url) ==
    IF url = CliListing
    THEN [fail |-> FALSE, name |-> <<"G">>, links |-> <<WorkUrl(11), WorkUrl(12)>>,
          next |-> None]
    ELSE IF url[2] = 11
    THEN [fail |-> FALSE, title |-> <<"W">>, author |-> <<"G">>, reader |-> None,
          has_tracks |-> FALSE, collection_urls |-> <<>>]
    ELSE IF url[2] = 12
    THEN [fail |-> FALSE, title |-> <<"T">>,
          author |-> <<"A","u","t","e","u","r","s"," ","d","i","v","e","r","s">>,
          reader |-> None, has_tracks |-> FALSE,
          collection_urls |-> <<WorkUrl(13), WorkUrl(14), WorkUrl(15)>>]
    ELSE [fail |-> FALSE, title |-> Str(url[2] - 12), author |-> <<"B">>, reader |-> None,
          has_tracks |-> FALSE, collection_urls |-> <<>>]

\* fetch_html(session, url, rate_limiter)
PipelineFetch(url, c) ==
    /\ c \in Served(url)
    /\ fetch_log' = Append(fetch_log, url)

\* the generator asked for the next item whatever the number of futures held
GeneratorRunsUnbounded ==
    /\ ~run.aborted
    /\ run.threads <= 1 => run.futures = {}

\* the generator runs only when run_pipeline asks for the next item: with threads <= 1
\* after download_item has returned, else while fewer than threads * 2 futures are held
GeneratorRuns ==
    /\ ~run.aborted
    /\ IF run.threads <= 1 THEN run.futures = {}
       ELSE Cardinality(run.futures) < run.threads * 2

PipelineSkipSeen ==
    /\ GeneratorRuns
    /\ pc = "main"
    /\ queue # <<>>
    /\ Head(queue) \in seen
    /\ queue' = Tail(queue)
    /\ UNCHANGED <<site, max_pages, seen, collection_map, group_map, author_prefixed_map,
                   pc, walk, yielded, fetch_log, wlog, appended>>
    /\ UNCHANGED other_vars

PipelineFetchFailed ==
    /\ GeneratorRuns
    /\ pc = "main"
    /\ queue # <<>>
    /\ Head(queue) \notin seen
    /\ \E c \in Served(Head(queue)) :
        /\ c.fail
        /\ PipelineFetch(Head(queue), c)
    /\ queue' = Tail(queue)
    /\ seen' = seen_add(seen, Head(queue))
    /\ UNCHANGED <<site, max_pages, collection_map, group_map, author_prefixed_map, pc, walk,
                   yielded, wlog, appended>>
    /\ UNCHANGED other_vars

PipelineStartListing ==
    /\ GeneratorRuns
    /\ pc = "main"
    /\ queue # <<>>
    /\ Head(queue) \notin seen
    /\ \E c \in Served(Head(queue)) :
        /\ ~c.fail
        /\ detect_page_type(Head(queue), c) \in {"author_listing", "voice_listing", "member_listing"}
        /\ PipelineFetch(Head(queue), c)
        /\ walk' = [current_url |-> Head(queue), page_count |-> 0, group_name |-> None,
                    page_type |-> detect_page_type(Head(queue), c), html |-> c]
    /\ queue' = Tail(queue)
    /\ seen' = seen_add(seen, Head(queue))
    /\ pc' = "listing"
    /\ UNCHANGED <<site, max_pages, collection_map, group_map, author_prefixed_map, yielded,
                   wlog, appended>>
    /\ UNCHANGED other_vars

PipelineListingPage ==
    /\ pc = "listing"
    /\ LET page_count == walk.page_count + 1
           group_name == IF walk.group_name = None
                         THEN extract_listing_name(walk.html, walk.page_type)
                         ELSE walk.group_name
           group_root == ListingGroupRoot(group_name, walk.current_url)
           next_page == walk.html.next
           stop == next_page = None \/ (max_pages # 0 /\ page_count >= max_pages)
       IN /\ group_map' = PutAll(group_map, walk.html.links, group_root)
          /\ queue' = Enqueue(queue, walk.html.links, seen)
          /\ \/ /\ stop \/ next_page \in seen
                /\ pc' = "main"
                /\ walk' = NoWalk
                /\ UNCHANGED fetch_log
             \/ /\ ~stop /\ next_page \notin seen
                /\ \E c \in Served(next_page) :
                    /\ PipelineFetch(next_page, c)
                    /\ IF c.fail
                       THEN pc' = "main" /\ walk' = NoWalk
                       ELSE /\ pc' = "listing"
                            /\ walk' = [walk EXCEPT !.current_url = next_page,
                                                    !.page_count = page_count,
                                                    !.group_name = group_name,
                                                    !.html = c]
    /\ UNCHANGED <<site, max_pages, seen, collection_map, author_prefixed_map, yielded, wlog, appended>>
    /\ UNCHANGED other_vars

\* a work page is dequeued and yielded; run_pipeline hands the item to download_item
\* (called in place with threads <= 1, submitted to the executor otherwise)
PipelineWorkPage ==
    /\ GeneratorRuns
    /\ pc = "main"
    /\ queue # <<>>
    /\ Head(queue) \notin seen
    /\ LET url == Head(queue) IN
       \E c \in Served(url) :
        /\ ~c.fail
        /\ detect_page_type(url, c) \in {"work", "track", "unknown"}
        /\ PipelineFetch(url, c)
        /\ seen' = seen_add(seen, url)
        /\ LET collection_root == Get(collection_map, normalize_url(url))
               group_root == Get(group_map, normalize_url(url))
               root_name == RootName(c.title, url)
           IN IF c.collection_urls # <<>>
              THEN /\ collection_map' = PutAll(collection_map, c.collection_urls, root_name)
                   /\ group_map' = IF Truthy(group_root)
                                   THEN PutAll(group_map, c.collection_urls, group_root)
                                   ELSE group_map
                   /\ queue' = Enqueue(Tail(queue), c.collection_urls, seen_add(seen, url))
                   /\ yielded' = Append(yielded,
                          AudioItem(c.title, c.author, c.reader, url, root_name, group_root,
                                    None, TRUE))
              ELSE /\ queue' = Tail(queue)
                   /\ yielded' = Append(yielded,
                          AudioItem(c.title, c.author, c.reader, url, collection_root,
                                    group_root, None, FALSE))
                   /\ UNCHANGED <<collection_map, group_map>>
    /\ run' = [run EXCEPT !.futures = @ \cup {Len(yielded) + 1},
                          !.item_count = @ + 1]
    /\ UNCHANGED <<site, max_pages, author_prefixed_map, pc, walk, wlog, appended>>
    /\ UNCHANGED <<res, fs, written, dl, registry, classified, loop_more, extraction, writers, names>>

\* the lengths of the file list download_item returns
FileCounts == {0, 2}

RECURSIVE SumFiles(_)
\* the sum of len(result) over a set of <<future, len(result)>> pairs
SumFiles(pairs) ==
    IF pairs = {} THEN 0
    ELSE LET p == CHOOSE q \in pairs : TRUE IN p[2] + SumFiles(pairs \ {p})

\* a drain that adds the result of the first of the done futures only
DrainedFirstOnly(r, done) ==
    LET first == {i \in done : \A j \in done : i <= j} IN
    [r EXCEPT !.downloaded_total = @ + SumFiles({p \in r.returned : p[1] \in first}),
              !.futures = @ \ done,
              !.done = @ \ done]

\* 'for future in done: try: downloaded_total += len(future.result()) except Exception':
\* the futures handed over leave the set held, a future that raised adds nothing
Drained(r, done) ==
    [r EXCEPT !.downloaded_total = @ + SumFiles({p \in r.returned : p[1] \in done}),
              !.futures = @ \ done,
              !.done = @ \ done]

\* download_item returns for one item; the executor runs at most threads items at a
\* time, in submission order; with threads <= 1 the length of the list is added at once
PipelineDownloadItem ==
    /\ \E i \in run.futures \ run.done :
        /\ Cardinality({j \in run.futures \ run.done : j < i}) <
              (IF run.threads <= 1 THEN 1 ELSE run.threads)
        /\ \E n \in FileCounts :
            run' = [run EXCEPT !.futures = IF run.threads <= 1 THEN @ \ {i} ELSE @,
                               !.done = IF run.threads <= 1 THEN @ ELSE @ \cup {i},
                               !.placed = Append(@, pipeline_download_item(yielded[i], output_dir)),
                               !.returned = @ \cup {<<i, n>>},
                               !.downloaded_total = IF run.threads <= 1 THEN @ + n ELSE @]
    /\ UNCHANGED crawl_vars
    /\ UNCHANGED <<res, fs, written, dl, registry, classified, loop_more, extraction, writers, names>>

\* download_item raises for one item (ensure_dir, export_json, export_description fail):
\* called in place with threads <= 1, the exception leaves run_pipeline; raised in a
\* worker, it is logged when the future's result is read
PipelineDownloadItemRaises ==
    /\ \E i \in run.futures \ run.done :
        /\ Cardinality({j \in run.futures \ run.done : j < i}) <
              (IF run.threads <= 1 THEN 1 ELSE run.threads)
        /\ run' = [run EXCEPT !.futures = IF run.threads <= 1 THEN @ \ {i} ELSE @,
                              !.done = IF run.threads <= 1 THEN @ ELSE @ \cup {i},
                              !.failed = @ \cup {i},
                              !.aborted = (run.threads <= 1)]
    /\ UNCHANGED crawl_vars
    /\ UNCHANGED <<res, fs, written, dl, registry, classified, loop_more, extraction, writers, names>>

\* run_pipeline with threads > 1, 'if len(futures) >= args.threads * 2': wait returns once
\* a future is done, the done futures are collected and the others kept
PipelineWait ==
    /\ run.threads > 1
    /\ Cardinality(run.futures) >= run.threads * 2
    /\ run.done # {}
    /\ run' = Drained(run, run.done)
    /\ UNCHANGED crawl_vars
    /\ UNCHANGED <<res, fs, written, dl, registry, classified, loop_more, extraction, writers, names>>

\* run_pipeline with threads > 1, after the generator is exhausted: as_completed hands
\* over the futures left, one at a time
PipelineAsCompleted ==
    /\ run.threads > 1
    /\ pc = "main"
    /\ queue = <<>>
    /\ \E i \in run.done : run' = Drained(run, {i})
    /\ UNCHANGED crawl_vars
    /\ UNCHANGED <<res, fs, written, dl, registry, classified, loop_more, extraction, writers, names>>

\* cli.main: load_urls, run_pipeline
InitCli ==
    /\ site \in [CliUrls -> UNION {{{CliPage(u)}, {Failed}} : u \in CliUrls}]
    /\ \A u \in CliUrls : site[u] \in {{CliPage(u)}, {Failed}}
    /\ \E urls \in {<<CliListing>>, <<CliListing, CliListing>>, <<WorkUrl(12), WorkUrl(11)>>} :
        \E threads \in {1, 2} :
            /\ queue = load_urls(urls)
            /\ run = [urls |-> urls, threads |-> threads, futures |-> {}, done |-> {},
                      placed |-> <<>>,
                      failed |-> {}, aborted |-> FALSE,
                      item_count |-> 0, downloaded_total |-> 0, returned |-> {}]
    /\ max_pages = default_max_pages
    /\ seen = {}
    /\ collection_map = <<>>
    /\ group_map = <<>>
    /\ author_prefixed_map = <<>>
    /\ pc = "main"
    /\ walk = NoWalk
    /\ yielded = <<>>
    /\ fetch_log = <<>>
    /\ wlog = <<>>
    /\ appended = <<>>
    /\ res = Idle
    /\ fs = {}
    /\ written = <<>>
    /\ dl = Idle /\ registry = Idle /\ classified = Idle /\ loop_more = Idle /\ extraction = Idle /\ writers = Idle /\ names = Idle

NextCli ==
    \/ PipelineSkipSeen
    \/ PipelineFetchFailed
    \/ PipelineStartListing
    \/ PipelineListingPage
    \/ PipelineWorkPage
    \/ PipelineDownloadItem
    \/ PipelineDownloadItemRaises
    \/ PipelineWait
    \/ PipelineAsCompleted

SpecCli == InitCli /\ [][NextCli]_vars

(***************************************************************************)
(* download_item, the download side of one item: downloader_pipeline.py    *)
(* and the download_item of pipeline.py that run_pipeline calls            *)
(***************************************************************************)
\* bound: download_item calls of one run
MaxItems == 2

\* the items handed to download_item: a work of two files, a work whose page offers no
\* download, a work whose only file is also a file of the first, and a collection root
\* whose own page has tracks
DownloadItems ==
    {AudioItem(<<"T">>, <<"B">>, None, WorkUrl(1), None, None, None, FALSE),
     AudioItem(<<"I">>, <<"B">>, None, WorkUrl(3), None, None, None, FALSE),
     AudioItem(<<"V">>, <<"B">>, None, WorkUrl(4), None, None, None, FALSE),
     AudioItem(<<"U">>, <<"B">>, None, WorkUrl(2), RootName(<<"U">>, WorkUrl(2)), None, None,
               TRUE)}

\* build_download_plan: the links to download for the item
build_download_plan(item) ==
    CASE item.source_url[2] = 3 -> <<>>
      [] item.source_url[2] = 1 -> <<[url |-> <<"mp3", 1>>], [url |-> <<"mp3", 0>>]>>
      [] item.source_url[2] = 4 -> <<[url |-> <<"mp3", 0>>]>>
      [] OTHER -> <<[url |-> <<"mp3", item.source_url[2]>>]>>

\* item.extra.get(ItemExtra.SKIP_DOWNLOAD) read as always unset
SkipDownloadIgnored(item) == FALSE

\* item.extra.get(ItemExtra.SKIP_DOWNLOAD)
SkipDownload(item) == item.skip_download

\* paths.item_dir as each download_item computes it
ItemDir(impl, item) ==
    IF impl = "new" THEN download_item(item, output_dir).paths.item_dir
    ELSE pipeline_download_item(item, output_dir).paths.item_dir

\* the branches of download_item with the dry-run test moved in front
BranchDryRunFirst(args, skip_download, files_exist) ==
    IF args.dry_run THEN "dry_run"
    ELSE IF args.no_duplicates /\ ~skip_download /\ files_exist THEN "duplicate"
    ELSE IF args.metadata_only THEN "metadata_only"
    ELSE IF skip_download THEN "skip_download"
    ELSE "download"

\* downloader_pipeline.download_item, steps 2, 3, 6a, 6b, 7: the first test that matches
Branch(args, skip_download, files_exist) ==
    IF args.no_duplicates /\ ~skip_download /\ files_exist THEN "duplicate"
    ELSE IF args.dry_run THEN "dry_run"
    ELSE IF args.metadata_only THEN "metadata_only"
    ELSE IF skip_download THEN "skip_download"
    ELSE "download"

\* pipeline.download_item with the dry-run test after the metadata-only test
pipeline_branch_dry_run_late(args, skip_download) ==
    IF args.metadata_only THEN "metadata_only"
    ELSE IF args.dry_run THEN "dry_run"
    ELSE IF skip_download THEN "skip_download"
    ELSE "download"

\* pipeline.download_item: the first test that matches
pipeline_branch(args, skip_download) ==
    IF args.dry_run THEN "dry_run"
    ELSE IF args.metadata_only THEN "metadata_only"
    ELSE IF skip_download THEN "skip_download"
    ELSE "download"

\* the state the item is in once the branch is taken
StateOf(branch) ==
    CASE branch = "duplicate" -> "SHORTCUT"
      [] branch = "dry_run" -> "REPORTED"
      [] branch = "metadata_only" -> "METADATA_WRITTEN"
      [] branch = "skip_download" -> "METADATA_WRITTEN"
      [] branch = "download" -> "DOWNLOADING"

\* the call in progress returns in the given state: its record joins the finished calls,
\* with the downloaded_files list of the JSON sidecar its item directory holds then
Return(d, state) ==
    [d EXCEPT !.cur = Idle,
              !.calls = Append(@, [d.cur EXCEPT !.state = state,
                                                !.trace = Append(@, state),
                                                !.sidecar = Get(d.sidecar, d.cur.item_dir)])]

\* ensure_dir(item_dir), _export_metadata
Exported(d, item_dir) == [d EXCEPT !.dirs = @ \cup {item_dir}, !.exported = @ \cup {item_dir}]

\* export_json(item, item_dir / "<item_name>.json", downloaded_files); --no-json is not given
ExportJson(d, item_dir, downloaded_files) ==
    [d EXCEPT !.sidecar =
        Put(@, item_dir,
            [downloaded_files |-> {downloaded_files[i] : i \in 1..Len(downloaded_files)}])]

\* folder_registry.register(item.source_url, item_dir)
Registered(d, item, item_dir) ==
    [d EXCEPT !.folder_registry = Put(@, item.source_url, item_dir)]

\* the links of the plan that registry.allow lets through
Allowed(plan, seen_keys) == SelectSeq(plan, LAMBDA link : link.url \notin seen_keys)

LinkUrls(links) == {links[i].url : i \in 1..Len(links)}

\* the links of the plan up to the first one for which download_file returns None
RECURSIVE UntilFailure(_, _)
UntilFailure(links, ok) ==
    IF links = <<>> THEN <<>>
    ELSE IF Head(links).url \notin ok THEN <<Head(links)>>
    ELSE <<Head(links)>> \o UntilFailure(Tail(links), ok)

\* the download loop leaving the plan at the first download_file that returns None
DownloadedAbortsOnFailure(d, links, ok, item_dir) ==
    LET tried == UntilFailure(links, ok)
        delivered == SelectSeq(tried, LAMBDA link : link.url \in ok)
    IN [d EXCEPT !.cur.fetched = @ \o tried,
                 !.cur.failed = @ \cup (LinkUrls(tried) \ ok),
                 !.cur.downloaded_files = @ \o [i \in 1..Len(delivered) |-> delivered[i].url],
                 !.registry_seen = @ \cup LinkUrls(tried),
                 !.files = @ \cup {[dir |-> item_dir, name |-> delivered[i].url] :
                                      i \in 1..Len(delivered)},
                 !.audio = IF delivered # <<>> THEN @ \cup {item_dir} ELSE @]

\* the download loop: download_file is called for every link registry.allow let through;
\* it returns a path for the links in ok, which joins downloaded_files, None for the rest
Downloaded(d, links, ok, item_dir) ==
    LET delivered == SelectSeq(links, LAMBDA link : link.url \in ok)
    IN [d EXCEPT !.cur.fetched = @ \o links,
                 !.cur.failed = @ \cup (LinkUrls(links) \ ok),
                 !.cur.downloaded_files = @ \o [i \in 1..Len(delivered) |-> delivered[i].url],
                 !.registry_seen = @ \cup LinkUrls(links),
                 !.files = @ \cup {[dir |-> item_dir, name |-> delivered[i].url] :
                                      i \in 1..Len(delivered)},
                 !.audio = IF ok # {} THEN @ \cup {item_dir} ELSE @]

\* download_item(item, args, ...) is called
DownloadItemCall ==
    /\ dl.cur = Idle
    /\ Len(dl.calls) < MaxItems
    /\ \E item \in DownloadItems :
        dl' = [dl EXCEPT !.cur =
                  [item |-> item, state |-> "PENDING", trace |-> <<"PENDING">>,
                   item_dir |-> ItemDir(dl.impl, item),
                   files_existed |-> ItemDir(dl.impl, item) \in dl.audio,
                   was_registered |-> /\ item.source_url \in DOMAIN dl.folder_registry
                                      /\ dl.folder_registry[item.source_url] \in dl.dirs,
                   fetched |-> <<>>, failed |-> {}, downloaded_files |-> <<>>,
                   sidecar |-> None]]
    /\ UNCHANGED crawl_vars
    /\ UNCHANGED <<res, fs, written, run, registry, classified, loop_more, extraction, writers, names>>

\* downloader_pipeline.download_item from its first line to step 6b
DownloadItemDecide ==
    /\ dl.impl = "new"
    /\ dl.cur # Idle
    /\ dl.cur.state = "PENDING"
    /\ LET item == dl.cur.item
           item_dir == dl.cur.item_dir
           branch == Branch(dl.args, SkipDownload(item), item_dir \in dl.audio)
       IN dl' = CASE branch \in {"duplicate", "dry_run"} -> Return(dl, StateOf(branch))
                  [] branch = "metadata_only" ->
                       Return(Registered(ExportJson(Exported(dl, item_dir), item_dir, <<>>),
                                         item, item_dir),
                              StateOf(branch))
                  [] branch = "skip_download" ->
                       Return(ExportJson(Exported(dl, item_dir), item_dir, <<>>),
                              StateOf(branch))
                  [] branch = "download" ->
                       [dl EXCEPT !.dirs = @ \cup {item_dir},
                                  !.cur.state = StateOf(branch),
                                  !.cur.trace = Append(@, StateOf(branch))]
    /\ UNCHANGED crawl_vars
    /\ UNCHANGED <<res, fs, written, run, registry, classified, loop_more, extraction, writers, names>>

\* steps 7 to 9: _download_audio_files, _export_metadata, folder_registry.register
DownloadItemAudio ==
    /\ dl.impl = "new"
    /\ dl.cur # Idle
    /\ dl.cur.state = "DOWNLOADING"
    /\ LET item == dl.cur.item
           item_dir == dl.cur.item_dir
           links == Allowed(build_download_plan(item), dl.registry_seen)
       IN \E ok \in SUBSET LinkUrls(links) :
            LET d == Downloaded(dl, links, ok, item_dir)
            IN dl' = Return(Registered(ExportJson(Exported(d, item_dir), item_dir,
                                                  d.cur.downloaded_files),
                                       item, item_dir),
                            "DONE")
    /\ UNCHANGED crawl_vars
    /\ UNCHANGED <<res, fs, written, run, registry, classified, loop_more, extraction, writers, names>>

\* pipeline.download_item from its first line to the skip_download test
PipelineItemDecide ==
    /\ dl.impl = "legacy"
    /\ dl.cur # Idle
    /\ dl.cur.state = "PENDING"
    /\ LET item == dl.cur.item
           item_dir == dl.cur.item_dir
           branch == pipeline_branch(dl.args, SkipDownload(item))
       IN dl' = CASE branch = "dry_run" -> Return(dl, StateOf(branch))
                  [] branch \in {"metadata_only", "skip_download"} ->
                       Return(ExportJson(Exported(dl, item_dir), item_dir, <<>>),
                              StateOf(branch))
                  [] branch = "download" ->
                       [dl EXCEPT !.dirs = @ \cup {item_dir},
                                  !.cur.state = StateOf(branch),
                                  !.cur.trace = Append(@, StateOf(branch))]
    /\ UNCHANGED crawl_vars
    /\ UNCHANGED <<res, fs, written, run, registry, classified, loop_more, extraction, writers, names>>

\* pipeline.download_item: build_download_plan, the download loop, the exports; the
\* JSON sidecar is written for an empty plan and 'if downloaded_files' after the loop
PipelineItemAudio ==
    /\ dl.impl = "legacy"
    /\ dl.cur # Idle
    /\ dl.cur.state = "DOWNLOADING"
    /\ LET item == dl.cur.item
           item_dir == dl.cur.item_dir
           plan == build_download_plan(item)
           links == Allowed(plan, dl.registry_seen)
       IN \E ok \in SUBSET LinkUrls(links) :
            LET d == Downloaded(dl, links, ok, item_dir)
            IN dl' = IF plan = <<>> \/ d.cur.downloaded_files # <<>>
                     THEN Return(ExportJson(Exported(d, item_dir), item_dir,
                                            d.cur.downloaded_files), "DONE")
                     ELSE Return(Exported(d, item_dir), "DONE")
    /\ UNCHANGED crawl_vars
    /\ UNCHANGED <<res, fs, written, run, registry, classified, loop_more, extraction, writers, names>>

\* the flags of the command line
DownloadArgs == [no_duplicates : BOOLEAN, dry_run : BOOLEAN, metadata_only : BOOLEAN]

\* run_pipeline: ensure_dir(output_dir) unless args.dry_run
run_pipeline_dirs(args, dirs) == IF args.dry_run THEN dirs ELSE dirs \cup {output_dir}

\* a run starts: the output folder may hold the audio files of an earlier run
InitDownload ==
    /\ crawl_idle
    /\ res = Idle
    /\ fs = {}
    /\ written = <<>>
    /\ run = Idle
    /\ registry = Idle /\ classified = Idle /\ loop_more = Idle /\ extraction = Idle /\ writers = Idle /\ names = Idle
    /\ \E impl \in {"new", "legacy"} : \E args \in DownloadArgs :
        \E audio \in SUBSET {ItemDir(impl, item) : item \in DownloadItems} :
            LET before == audio \cup (IF audio = {} THEN {} ELSE {output_dir})
            IN dl = [impl |-> impl, args |-> args, before |-> before,
                     dirs |-> run_pipeline_dirs(args, before), audio |-> audio,
                     files |-> {}, sidecar |-> <<>>,
                     exported |-> {}, folder_registry |-> <<>>, registry_seen |-> {},
                     shortcuts |-> {}, cur |-> Idle, calls |-> <<>>]

NextDownload ==
    \/ DownloadItemCall
    \/ DownloadItemDecide
    \/ DownloadItemAudio
    \/ PipelineItemDecide
    \/ PipelineItemAudio

SpecDownload == InitDownload /\ [][NextDownload]_vars

(***************************************************************************)
(* load_more_tracks: the paginated track loader of one work page           *)
(***************************************************************************)
\* bound: "more tracks" URLs the site serves for one work
MaxLoopPages == 2

LoopUrl(n) == <<"loop", n>>
LoopUrls == {LoopUrl(n) : n \in 1..MaxLoopPages}
TrackUrls == {"a", "b"}

\* what fetch_json returns for a "more tracks" URL: a failure, a reply without content,
\* or a fragment holding tracks (extract_track_items) and possibly the next "more
\* tracks" link (extract_loop_more_url)
LoopReplies ==
    {[fail |-> TRUE, content |-> FALSE, tracks |-> {}, next |-> None],
     [fail |-> FALSE, content |-> FALSE, tracks |-> {}, next |-> None]}
    \cup {[fail |-> FALSE, content |-> TRUE, tracks |-> ts, next |-> nx] :
            ts \in SUBSET TrackUrls, nx \in {None} \cup LoopUrls}

\* load_more_tracks is called: loop_url from the work page, seen_tracks from item.tracks
InitLoadMore ==
    /\ crawl_idle
    /\ res = Idle /\ fs = {} /\ written = <<>> /\ run = Idle /\ dl = Idle
    /\ registry = Idle /\ classified = Idle /\ extraction = Idle /\ writers = Idle /\ names = Idle
    /\ \E pages \in [LoopUrls -> LoopReplies] :
        \E first \in {None, LoopUrl(1)} : \E tracks \in SUBSET {"a"} :
            loop_more = [pages |-> pages, loop_url |-> first, seen_tracks |-> tracks,
                         seen_pages |-> {}, page_count |-> 0, pc |-> "loop",
                         fetched |-> <<>>]

\* one pass of 'while loop_url and loop_url not in seen_pages'
LoadMoreFetch ==
    /\ loop_more.pc = "loop"
    /\ loop_more.loop_url # None
    /\ loop_more.loop_url \notin loop_more.seen_pages
    /\ LET url == loop_more.loop_url
           data == loop_more.pages[url]
           added == data.tracks \ loop_more.seen_tracks
           entry == [url |-> url, content |-> data.content, added |-> Cardinality(added)]
           m == [loop_more EXCEPT !.seen_pages = @ \cup {url},
                                  !.page_count = @ + 1,
                                  !.fetched = Append(@, entry)]
       IN loop_more' =
            IF data.fail \/ ~data.content THEN [m EXCEPT !.pc = "done"]
            ELSE [m EXCEPT !.seen_tracks = @ \cup added,
                           !.loop_url = data.next,
                           !.pc = IF added = {} /\ data.next = None THEN "done" ELSE "loop"]
    /\ UNCHANGED crawl_vars
    /\ UNCHANGED <<res, fs, written, run, dl, registry, classified, extraction, writers, names>>

\* the while test fails (or 'if not loop_url: return'): load_more_tracks returns
LoadMoreReturn ==
    /\ loop_more.pc = "loop"
    /\ loop_more.loop_url = None \/ loop_more.loop_url \in loop_more.seen_pages
    /\ loop_more' = [loop_more EXCEPT !.pc = "done"]
    /\ UNCHANGED crawl_vars
    /\ UNCHANGED <<res, fs, written, run, dl, registry, classified, extraction, writers, names>>

NextLoadMore ==
    \/ LoadMoreFetch
    \/ LoadMoreReturn

SpecLoadMore == InitLoadMore /\ [][NextLoadMore]_vars

(***************************************************************************)
(* DownloadRegistry.allow called from the download loops of the worker     *)
(* threads                                                                 *)
(***************************************************************************)
\* bound: worker threads downloading at the same time
MaxWorkers == 2

Workers == 1..MaxWorkers
\* threading.Lock: the worker holding it, Unlocked when free
Unlocked == 0
\* the download keys (link.final_url or link.url); "" is the empty key
DownloadKeys == {"", "k1", "k2"}
\* the plans of the items the workers download
WorkerPlans == {<<"k1">>, <<"k1", "k2">>, <<"k2", "k1">>, <<"", "k1">>}

\* the executor has started download_item on every worker; the registry is new
InitRegistry ==
    /\ crawl_idle
    /\ res = Idle /\ fs = {} /\ written = <<>> /\ run = Idle /\ dl = Idle
    /\ classified = Idle /\ loop_more = Idle /\ extraction = Idle /\ writers = Idle /\ names = Idle
    /\ \E plans \in [Workers -> WorkerPlans] :
        registry = [lock |-> Unlocked, seen |-> {},
                    workers |-> [w \in Workers |-> [plan |-> plans[w], i |-> 1, pc |-> "loop"]],
                    returns |-> <<>>, downloads |-> <<>>]

\* the key worker w is at
KeyOf(w) == registry.workers[w].plan[registry.workers[w].i]

\* allow returns result to worker w: the loop downloads the link or skips it; the entry
\* of the log remembers whether a download of the key had failed by then
AllowReturns(r, w, result) ==
    [r EXCEPT !.returns = Append(@, [worker |-> w, key |-> KeyOf(w), result |-> result,
                                     failed |-> \E d \in 1..Len(r.downloads) :
                                                    /\ r.downloads[d].key = KeyOf(w)
                                                    /\ ~r.downloads[d].ok]),
              !.workers[w].pc = IF result THEN "download" ELSE "loop",
              !.workers[w].i = IF result THEN @ ELSE @ + 1]

\* 'for link in plan: registry.allow(key)' is called; 'if not key: return True'
AllowCall(w) ==
    /\ registry.workers[w].pc = "loop"
    /\ registry.workers[w].i <= Len(registry.workers[w].plan)
    /\ registry' = IF KeyOf(w) = "" THEN AllowReturns(registry, w, TRUE)
                   ELSE [registry EXCEPT !.workers[w].pc = "lock"]

\* 'with self.lock:' entered without waiting for the lock
AllowAcquireUnlocked(w) ==
    /\ registry.workers[w].pc = "lock"
    /\ registry' = [registry EXCEPT !.lock = w, !.workers[w].pc = "check"]

\* 'with self.lock:' the thread takes the lock once it is free
AllowAcquire(w) ==
    /\ registry.workers[w].pc = "lock"
    /\ registry.lock = Unlocked
    /\ registry' = [registry EXCEPT !.lock = w, !.workers[w].pc = "check"]

\* 'if key in self.seen: return False', leaving the with block releases the lock
AllowCheck(w) ==
    /\ registry.workers[w].pc = "check"
    /\ registry' = IF KeyOf(w) \in registry.seen
                   THEN AllowReturns([registry EXCEPT !.lock = Unlocked], w, FALSE)
                   ELSE [registry EXCEPT !.workers[w].pc = "add"]

\* 'self.seen.add(key); return True', leaving the with block releases the lock
AllowAdd(w) ==
    /\ registry.workers[w].pc = "add"
    /\ registry' = AllowReturns([registry EXCEPT !.lock = Unlocked,
                                                 !.seen = @ \cup {KeyOf(w)}], w, TRUE)

\* download_file has returned to worker w, a path (ok) or None
DownloadReturns(r, w, ok) ==
    [r EXCEPT !.downloads = Append(@, [worker |-> w, key |-> KeyOf(w), ok |-> ok]),
              !.workers[w].pc = "loop",
              !.workers[w].i = @ + 1]

\* a download loop that gave the key back when download_file returns None
WorkerDownloadReleases(w) ==
    /\ registry.workers[w].pc = "download"
    /\ \E ok \in BOOLEAN :
        registry' = DownloadReturns([registry EXCEPT
                                        !.seen = IF ok THEN @ ELSE @ \ {KeyOf(w)}], w, ok)

\* download_file is called for the link allow let through; 'if not path: continue'
\* goes to the next link like a delivered file does, the registry is not touched
WorkerDownload(w) ==
    /\ registry.workers[w].pc = "download"
    /\ \E ok \in BOOLEAN : registry' = DownloadReturns(registry, w, ok)

NextRegistry ==
    /\ \E w \in Workers :
        \/ AllowCall(w)
        \/ AllowAcquire(w)
        \/ AllowCheck(w)
        \/ AllowAdd(w)
        \/ WorkerDownload(w)
    /\ UNCHANGED crawl_vars
    /\ UNCHANGED <<res, fs, written, run, dl, classified, loop_more, extraction, writers, names>>

SpecRegistry == InitRegistry /\ [][NextRegistry]_vars

(***************************************************************************)
(* detect_page_type and the dispatch of iter_items on the type it returns  *)
(***************************************************************************)
\* bound: detect_page_type calls on one (url, html)
MaxDetect == 2

\* URLs of every shape the patterns of parser.py tell apart, and of none of them
ClassifyUrls ==
    {<<kind, n, "">> : kind \in {"auteur", "voix", "membre", "piste", "work", "other"},
                       n \in {1, 2}}
\* page texts: whether "entry-title" and "/auteur/" occur in the html
PageTexts == [entry_title : BOOLEAN, auteur_link : BOOLEAN]

\* iter_items with every type sent to the listing walker but "unknown", which no test names
HandlerDropsUnknown(page_type) ==
    IF page_type \in {"author_listing", "voice_listing", "member_listing"} THEN "listing"
    ELSE IF page_type \in {"work", "track"} THEN "work"
    ELSE "dropped"

\* iter_items: 'if page_type in [...]' for the listing walker, then for parse_work_page;
\* a type neither test names falls out of the loop body
Handler(page_type) ==
    IF page_type \in {"author_listing", "voice_listing", "member_listing"} THEN "listing"
    ELSE IF page_type \in {"work", "track", "unknown"} THEN "work"
    ELSE "dropped"

\* a page has been fetched
InitClassify ==
    /\ crawl_idle
    /\ res = Idle /\ fs = {} /\ written = <<>> /\ run = Idle /\ dl = Idle
    /\ registry = Idle /\ loop_more = Idle /\ extraction = Idle /\ writers = Idle /\ names = Idle
    /\ \E url \in ClassifyUrls : \E html \in PageTexts :
        classified = [url |-> url, html |-> html, calls |-> <<>>, handler |-> "pending"]

\* page_type = detect_page_type(url, html)
DetectPageType ==
    /\ classified.handler = "pending"
    /\ Len(classified.calls) < MaxDetect
    /\ classified' = [classified EXCEPT
                         !.calls = Append(@, detect_page_type(classified.url, classified.html))]
    /\ UNCHANGED crawl_vars
    /\ UNCHANGED <<res, fs, written, run, dl, registry, loop_more, extraction, writers, names>>

\* iter_items takes the branch of the type returned
Dispatch ==
    /\ classified.handler = "pending"
    /\ classified.calls # <<>>
    /\ classified' = [classified EXCEPT !.handler = Handler(classified.calls[1])]
    /\ UNCHANGED crawl_vars
    /\ UNCHANGED <<res, fs, written, run, dl, registry, loop_more, extraction, writers, names>>

NextClassify ==
    \/ DetectPageType
    \/ Dispatch

SpecClassify == InitClassify /\ [][NextClassify]_vars

(***************************************************************************)
(* extract_collection_urls: the child URLs of a collection page            *)
(***************************************************************************)
\* bound: work links in one place of a page (a place may also hold OverMatchMin links)
MaxBlockLinks == 2
\* 'if len(matched) > 10'
MATCH_MIN == 10
OverMatchMin == MATCH_MIN + 1

\* a page holds work links in four places: 1 the first block-loop-items div of
\* station-content, 2 the rest of station-content, 3 a block-loop-items div of
\* entry-content outside station-content (after the first one in the document), 4 the
\* rest of entry-content

\* the links of one place: how many, and what their slugs hold: nothing of interest
\* ("plain"), a token of the page's slug ("token"), "bible", "testament" or "evangile"
\* ("bible")
PlaceLinks ==
    {[count |-> 0, kind |-> "plain"]}
    \cup [count : (1..MaxBlockLinks) \cup {OverMatchMin}, kind : {"plain", "token", "bible"}]

\* the pages handed to extract_collection_urls: entry-content, station-content and its
\* links (none of them to the page itself), and what slug_from_url(page_url) holds: no
\* token left after the stop words ("none"), some token ("tokens"), some token and
\* "bible" or "testament" ("bible")
ExtractPages ==
    {[entry |-> FALSE, station |-> FALSE, slug |-> "none",
      places |-> [p \in 1..4 |-> [count |-> 0, kind |-> "plain"]]]}
    \cup {[entry |-> TRUE, station |-> TRUE, slug |-> s, places |-> pl] :
             s \in {"none", "tokens", "bible"}, pl \in [1..4 -> PlaceLinks]}
    \cup {[entry |-> TRUE, station |-> FALSE, slug |-> s, places |-> pl] :
             s \in {"none", "tokens", "bible"},
             pl \in {f \in [1..4 -> PlaceLinks] : f[1].count = 0 /\ f[2].count = 0}}

\* urljoin(page_url, href) of the links of place p that pass the
\* "/livre-audio-gratuit-mp3/" and ".html" tests
LinksIn(page, p) == {WorkUrl(100 * p + i) : i \in 1..page.places[p].count}

\* the links of place p whose slug is of one of the kinds
LinksOfKind(page, p, kinds) == IF page.places[p].kind \in kinds THEN LinksIn(page, p) ELSE {}

\* total_station_links: every work link of station-content
total_station_links(page) == IF page.station THEN LinksIn(page, 1) \cup LinksIn(page, 2) ELSE {}

\* slug_tokens is not empty
slug_tokens(page) == page.slug \in {"tokens", "bible"}

\* tier 1: the first block of station-content, if it holds links and at least 70% of
\* total_station_links (len(links) >= len(total_station_links) * 0.7, in tenths)
block_links(page) ==
    LET links == IF page.station THEN LinksIn(page, 1) ELSE {}
    IN IF links # {} /\ 10 * Cardinality(links) >= 7 * Cardinality(total_station_links(page))
       THEN links ELSE {}

\* tier 2: the block of entry-content with the highest score (links whose slug holds a
\* slug token), the earlier block on a tie, if it covers half of total_station_links
best_links(page) ==
    LET score(p) == Cardinality(LinksOfKind(page, p, {"token"}))
        best == IF ~slug_tokens(page) THEN {}
                ELSE IF page.station /\ score(1) > 0 /\ score(1) >= score(3) THEN LinksIn(page, 1)
                ELSE IF score(3) > 0 THEN LinksIn(page, 3)
                ELSE {}
    IN IF best # {} /\ 2 * Cardinality(best) >= Cardinality(total_station_links(page))
       THEN best ELSE {}

\* every work link of entry-content whose slug is of one of the kinds
EntryLinksOfKind(page, kinds) ==
    UNION {LinksOfKind(page, p, kinds) :
              p \in IF page.station THEN 1..4 ELSE 3..4}

\* tier 3: the links of entry-content whose slug holds a slug token, if over MATCH_MIN
matched(page) ==
    LET m == IF slug_tokens(page) THEN EntryLinksOfKind(page, {"token"}) ELSE {}
    IN IF Cardinality(m) > MATCH_MIN THEN m ELSE {}

\* tier 4: '"bible" in slug or "testament" in slug': the links of entry-content that
\* hold "bible", "testament" or "evangile"
bible_matched(page) ==
    IF page.slug = "bible" THEN EntryLinksOfKind(page, {"bible"}) ELSE {}

\* tier 5: every work link of station-content
all_links(page) == total_station_links(page)

\* the last lines: the first link of every <article> of entry-content; in the pages of
\* the model the links of the blocks are in articles of the author, the others are not
article_links(page) ==
    (IF page.station THEN LinksIn(page, 1) ELSE {}) \cup LinksIn(page, 3)

\* what tier k finds on the page; {} is nothing usable
Tier(k, page) ==
    CASE k = 1 -> block_links(page)
      [] k = 2 -> best_links(page)
      [] k = 3 -> matched(page)
      [] k = 4 -> bible_matched(page)
      [] k = 5 -> all_links(page)

\* extract_collection_urls is called on a page
InitExtract ==
    /\ crawl_idle
    /\ res = Idle /\ fs = {} /\ written = <<>> /\ run = Idle /\ dl = Idle
    /\ registry = Idle /\ classified = Idle /\ loop_more = Idle /\ writers = Idle /\ names = Idle
    /\ \E page \in ExtractPages :
        extraction = [page |-> page, pc |-> 0, evaluated |-> <<>>, result |-> <<>>]

\* 'if not entry: return []'
ExtractEntry ==
    /\ extraction.pc = 0
    /\ extraction' = [extraction EXCEPT !.pc = IF extraction.page.entry THEN 1 ELSE 7]
    /\ UNCHANGED crawl_vars
    /\ UNCHANGED <<res, fs, written, run, dl, registry, classified, loop_more, writers, names>>

\* tier pc is evaluated with no 'return' before the final fallback: the first usable
\* result is kept and the tiers below it run all the same
ExtractedWithoutReturn(e) ==
    LET k == e.pc
        found == Tier(k, e.page)
        result == IF found # {} /\ e.result = <<>> THEN SortedUrls(found) ELSE e.result
    IN [e EXCEPT !.evaluated = Append(@, k),
                 !.result = result,
                 !.pc = IF k < 5 THEN k + 1 ELSE IF result # <<>> THEN 7 ELSE 6]

\* tier pc is evaluated: 'return sorted(...)' if it found something usable, else the
\* lines of the next tier
Extracted(e) ==
    LET k == e.pc
        found == Tier(k, e.page)
    IN [e EXCEPT !.evaluated = Append(@, k),
                 !.result = IF found # {} THEN SortedUrls(found) ELSE @,
                 !.pc = IF found # {} THEN 7 ELSE k + 1]

ExtractTier ==
    /\ extraction.pc \in 1..5
    /\ extraction' = Extracted(extraction)
    /\ UNCHANGED crawl_vars
    /\ UNCHANGED <<res, fs, written, run, dl, registry, classified, loop_more, writers, names>>

\* the last lines: 'return sorted(links)' over the articles, empty or not
ExtractArticles ==
    /\ extraction.pc = 6
    /\ extraction' = [extraction EXCEPT !.evaluated = Append(@, 6),
                                        !.result = SortedUrls(article_links(extraction.page)),
                                        !.pc = 7]
    /\ UNCHANGED crawl_vars
    /\ UNCHANGED <<res, fs, written, run, dl, registry, classified, loop_more, writers, names>>

NextExtract ==
    \/ ExtractEntry
    \/ ExtractTier
    \/ ExtractArticles

SpecExtract == InitExtract /\ [][NextExtract]_vars

(***************************************************************************)
(* download_file called by several worker threads for one directory        *)
(***************************************************************************)
\* dest_path.with_suffix(dest_path.suffix + '.part')
PART == <<".", "p", "a", "r", "t">>
max_attempts == 3

\* the executor runs download_file in every worker with the same dest_dir and file
\* names that sanitize to the same name; files maps each name of the directory to the
\* worker whose bytes it holds, 0 for a file older than the run
InitWriters ==
    /\ crawl_idle
    /\ res = Idle /\ fs = {} /\ written = <<>> /\ run = Idle /\ dl = Idle
    /\ registry = Idle /\ classified = Idle /\ loop_more = Idle /\ extraction = Idle /\ names = Idle
    /\ \E suggested_filename \in RawNames : \E k \in {0, 1} :
        LET filename == sanitize_filename(suggested_filename)
        IN writers = [filename |-> filename,
                      files |-> [n \in Colliding(filename, k) |-> 0],
                      workers |-> [w \in Workers |->
                                      [pc |-> "get", attempt |-> 1, dest_path |-> None,
                                       result |-> None]]]

\* 'except Exception': the next attempt, or None after max_attempts
WriterRaised(r, w) ==
    IF r.workers[w].attempt < max_attempts
    THEN [r EXCEPT !.workers[w].attempt = @ + 1, !.workers[w].pc = "get"]
    ELSE [r EXCEPT !.workers[w].result = None, !.workers[w].pc = "done"]

\* session.get answers; dest_path = unique_path(dest_dir / filename) looks at the
\* directory as it is now
WriterGet(w) ==
    /\ writers.workers[w].pc = "get"
    /\ writers' = [writers EXCEPT
                      !.workers[w].dest_path = unique_path(DOMAIN writers.files, writers.filename),
                      !.workers[w].pc = "write"]

\* session.get or raise_for_status raises
WriterGetRaises(w) ==
    /\ writers.workers[w].pc = "get"
    /\ writers' = WriterRaised(writers, w)

\* 'with temp_path.open("wb")': the temp file is created or truncated and the body
\* written to it
WriterWrite(w) ==
    /\ writers.workers[w].pc = "write"
    /\ writers' = [writers EXCEPT
                      !.files = Put(@, writers.workers[w].dest_path \o PART, w),
                      !.workers[w].pc = "replace"]

\* temp_path.replace(dest_path): the temp file takes the place of whatever dest_path
\* holds; FileNotFoundError when another worker has moved the temp file away
WriterReplace(w) ==
    /\ writers.workers[w].pc = "replace"
    /\ LET dest_path == writers.workers[w].dest_path
           temp_path == dest_path \o PART
       IN writers' =
            IF temp_path \in DOMAIN writers.files
            THEN [writers EXCEPT
                     !.files = [n \in (DOMAIN @ \ {temp_path}) \cup {dest_path} |->
                                   IF n = dest_path THEN @[temp_path] ELSE @[n]],
                     !.workers[w].result = dest_path,
                     !.workers[w].pc = "done"]
            ELSE WriterRaised(writers, w)

NextWriters ==
    /\ \E w \in Workers :
        \/ WriterGet(w)
        \/ WriterGetRaises(w)
        \/ WriterWrite(w)
        \/ WriterReplace(w)
    /\ UNCHANGED crawl_vars
    /\ UNCHANGED <<res, fs, written, run, dl, registry, classified, loop_more, extraction, names>>

SpecWriters == InitWriters /\ [][NextWriters]_vars

(***************************************************************************)
(* Names of crawled pages: from the page to the context maps (iter_items)  *)
(* and from there to the folder paths (download_item)                      *)
(***************************************************************************)
\* bound: length of the short names drawn over NameChars
MaxNameLen == 2

NameChars == {"a", ":", "_", " ", "/", "."}

\* a name of n letters, and a name of two words of n letters
Letters(n) == [i \in 1..n |-> "x"]
TwoWords(n) == Letters(n) \o <<" ">> \o Letters(n)

\* the titles a page can carry: every short name, names around max_length
PageTitles ==
    UNION {[1..n -> NameChars] : n \in 1..MaxNameLen}
    \cup {Letters(max_length), Letters(max_length + 1), TwoWords(max_length \div 2),
          TwoWords(max_length - 1)}
PageAuthors == {None, <<"B">>, <<".", ".">>, Letters(max_length \div 2),
                <<"A","u","t","e","u","r","s"," ","D","i","v","e","r","s">>}
PageGroupNames == {None, <<"G">>, <<".", ".">>}

\* a collection page (its title, its author, the name of the listing it was found on,
\* if any) and the title of the one work it lists
InitNames ==
    /\ crawl_idle
    /\ res = Idle /\ fs = {} /\ written = <<>> /\ run = Idle /\ dl = Idle
    /\ registry = Idle /\ classified = Idle /\ loop_more = Idle /\ extraction = Idle
    /\ writers = Idle
    /\ \E title \in PageTitles : \E author \in PageAuthors :
       \E group_name \in PageGroupNames : \E child_title \in {<<"T">>, <<".", ".">>} :
        names = [title |-> title, author |-> author, group_name |-> group_name,
                 child_title |-> child_title, stage |-> "page",
                 items |-> <<>>, paths |-> <<>>]

\* iter_items on the collection page and then on its child: the listing walker wrote
\* group_root for the collection, the expander writes the context of the child, both
\* items are yielded
StoreContext ==
    /\ names.stage = "page"
    /\ LET group_root == IF names.group_name = None THEN None
                         ELSE ListingGroupRoot(names.group_name, ListingUrl(1))
           root_name == RootName(names.title, WorkUrl(1))
           c == [title |-> names.title, author |-> names.author, reader |-> None,
                 collection_urls |-> <<WorkUrl(2)>>]
           child == [title |-> names.child_title, author |-> names.author, reader |-> None,
                     collection_urls |-> <<>>]
       IN names' = [names EXCEPT
                       !.stage = "stored",
                       !.items = <<CollectionItem(WorkUrl(1), c, root_name, group_root, None, 0),
                                   LeafItem(WorkUrl(2), child, root_name,
                                            ChildGroupRoot(TRUE, names.author, group_root),
                                            ChildAuthorPrefixed(TRUE, names.author, root_name,
                                                                group_root, None), 0)>>]
    /\ UNCHANGED crawl_vars
    /\ UNCHANGED <<res, fs, written, run, dl, registry, classified, loop_more, extraction, writers>>

\* download_item resolves the folder paths of both items
ResolveFolders ==
    /\ names.stage = "stored"
    /\ names' = [names EXCEPT
                    !.stage = "resolved",
                    !.paths = [i \in 1..Len(names.items) |->
                                  download_item(names.items[i], output_dir).paths]]
    /\ UNCHANGED crawl_vars
    /\ UNCHANGED <<res, fs, written, run, dl, registry, classified, loop_more, extraction, writers>>

NextNames ==
    \/ StoreContext
    \/ ResolveFolders

SpecNames == InitNames /\ [][NextNames]_vars

(***************************************************************************)
(* Properties of the crawl                                                 *)
(***************************************************************************)
\* the context writes made for url under key before log position at, in order
RECURSIVE WritesBefore(_, _, _)
WritesBefore(url, key, at) ==
    IF at = 0 THEN <<>>
    ELSE LET w == wlog[at]
         IN WritesBefore(url, key, at - 1)
              \o (IF w.url = url /\ w.key = key THEN <<w>> ELSE <<>>)

Last(s) == s[Len(s)]

\* the parents that wrote any context entry for url before log position at
WritersBefore(url, at) == {wlog[i].by : i \in {j \in 1..at : wlog[j].url = url}}

ContextKeys == {"group_root", "collection_root", "author_prefixed"}

\* C1: during one crawl run no normalized URL is requested with fetch_html more than
\* once, the listing pagination pages the listing walker fetches included
C1_NoUrlFetchedTwice ==
    \A i, j \in 1..Len(fetch_log) :
        i # j => normalize_url(fetch_log[i]) # normalize_url(fetch_log[j])

\* C2: no two yielded items share a normalized source_url, even when the URL was
\* appended to the queue several times by different parents
C2_OneItemPerSourceUrl ==
    \A i, j \in 1..Len(yielded) :
        i # j => normalize_url(yielded[i].source_url) # normalize_url(yielded[j].source_url)

\* a URL that two parents appended to the queue has been yielded once and its second
\* queue entry has been popped and skipped
C2_Witness ==
    \E i \in 1..Len(yielded) :
        /\ Cardinality(WritersBefore(yielded[i].source_url, yielded[i].at)) >= 2
        /\ \A k \in 1..Len(queue) : queue[k] # yielded[i].source_url
        /\ pc = "main"

\* the yielded items
Items == {yielded[i] : i \in 1..Len(yielded)}

IsLeaf(y) == y.collection_urls = <<>>

\* C10 as stated: context writes are first-writer-wins, an item is yielded with the
\* value written first for its URL
C10_FirstWriterWins ==
    \A y \in Items : \A k \in ContextKeys :
        LET ws == WritesBefore(y.source_url, k, y.at)
        IN (IsLeaf(y) /\ ws # <<>>) => y[k] = ws[1].val

\* C10: every context write replaces the entry of the URL, so an item that is not itself
\* a collection is yielded with the value written last before it was dequeued, and with
\* no value under a key nobody wrote
C10_LastWriterWins ==
    \A y \in Items : \A k \in ContextKeys :
        LET ws == WritesBefore(y.source_url, k, y.at)
        IN IsLeaf(y) => y[k] = (IF ws = <<>> THEN None ELSE Last(ws).val)

\* an item without children for which two parents wrote conflicting values under one key
\* before it was dequeued
C10_Witness ==
    \E y \in Items : \E k \in ContextKeys :
        LET ws == WritesBefore(y.source_url, k, y.at)
        IN /\ IsLeaf(y)
           /\ Len(ws) >= 2
           /\ ws[1].val # Last(ws).val
           /\ ws[1].by # Last(ws).by

\* a yielded collection whose author is the "various authors" sentinel
IsVariousAuthorsCollection(y) ==
    ~IsLeaf(y) /\ Truthy(y.author) /\ Lower(y.author) = AUTEURS_DIVERS

\* the collection was tagged with a group_root by a listing page before it was dequeued
ViaListing(y) ==
    LET ws == WritesBefore(y.source_url, "group_root", y.at)
    IN ws # <<>> /\ Last(ws).by[1] = "auteur"

ChildrenOf(p) == {normalize_url(p.collection_urls[i]) : i \in 1..Len(p.collection_urls)}

VariousAuthorsPrefix(p) == AuteursDiversPrefix \o RootName(p.title, p.source_url)

Enqueued(i, j) ==
    /\ i < j
    /\ ~IsLeaf(yielded[i])
    /\ yielded[j].source_url \in ChildrenOf(yielded[i])

\* between the dequeue of yielded[i] and the dequeue of yielded[j] nobody but yielded[i]
\* wrote the context entry of yielded[j] under key
NoOtherWriter(i, j, key) ==
    \A k \in (yielded[i].at + 1)..yielded[j].at :
        (wlog[k].url = yielded[j].source_url /\ wlog[k].key = key)
            => wlog[k].by = yielded[i].source_url

\* C11 as stated: a non-collection item carries the sanitized title of every collection
\* that lists its URL, whatever the order of discovery and whichever other parents it has
C11_ChildCarriesEveryParent ==
    \A p \in Items : \A y \in Items :
        (~IsLeaf(p) /\ IsLeaf(y) /\ y.source_url \in ChildrenOf(p) /\ Truthy(p.title))
            => y.collection_root = sanitize_filename(p.title)

\* C11: a non-collection item whose URL was listed by a collection C dequeued before it
\* carries collection_root = the sanitized title of C, unless another collection listing
\* the URL was processed after C and before the item was dequeued
C11_ChildCarriesLastParent ==
    \A i, j \in 1..Len(yielded) :
        (/\ Enqueued(i, j)
         /\ IsLeaf(yielded[j])
         /\ NoOtherWriter(i, j, "collection_root")
         /\ Truthy(yielded[i].title))
            => yielded[j].collection_root = sanitize_filename(yielded[i].title)

\* a non-collection item listed by a collection and by another parent as well has been
\* yielded after the collection
C11_Witness ==
    \E i, j \in 1..Len(yielded) :
        /\ Enqueued(i, j)
        /\ IsLeaf(yielded[j])
        /\ NoOtherWriter(i, j, "collection_root")
        /\ Cardinality(WritersBefore(yielded[j].source_url, yielded[j].at)) >= 2

ListingTypes == {"author_listing", "voice_listing", "member_listing"}

C13_ChildGroupRootEqualsParent ==
    \A i, j \in 1..Len(yielded) :
        (Enqueued(i, j) /\ ~IsVariousAuthorsCollection(yielded[i]))
            => yielded[j].group_root = yielded[i].group_root

\* C13: a collection that is not a "various authors" collective and is yielded with a
\* group_root G hands G to every child it enqueued, provided the child is not itself a
\* "various authors" collective and no other parent wrote the child's group_root before
\* the child was dequeued
C13_ChildGroupRootInherited ==
    \A i, j \in 1..Len(yielded) :
        (/\ Enqueued(i, j)
         /\ ~IsVariousAuthorsCollection(yielded[i])
         /\ Truthy(yielded[i].group_root)
         /\ ~IsVariousAuthorsCollection(yielded[j])
         /\ NoOtherWriter(i, j, "group_root"))
            => yielded[j].group_root = yielded[i].group_root

\* a collection tagged by a listing and a child it enqueued have both been yielded
C13_Witness ==
    \E i, j \in 1..Len(yielded) :
        /\ Enqueued(i, j)
        /\ ~IsVariousAuthorsCollection(yielded[i])
        /\ Truthy(yielded[i].group_root)
        /\ ~IsVariousAuthorsCollection(yielded[j])
        /\ NoOtherWriter(i, j, "group_root")

\* the position of the first queue entry of url
FirstAppend(url) ==
    CHOOSE k \in 1..Len(appended) :
        appended[k].url = url /\ \A m \in 1..(k - 1) : appended[m].url # url

\* the positions of the fetch_html calls for url
FetchIndexes(url) == {m \in 1..Len(fetch_log) : normalize_url(fetch_log[m]) = url}

\* C14: items are yielded in the order in which their URLs were first appended to the
\* queue, and a collection is yielded before any child it appended is fetched or yielded
C14_BreadthFirstOrder ==
    /\ \A i \in 1..Len(yielded) :
        \E k \in 1..Len(appended) : appended[k].url = yielded[i].source_url
    /\ LET first == [i \in 1..Len(yielded) |-> FirstAppend(yielded[i].source_url)]
       IN \A i, j \in 1..Len(yielded) : first[i] < first[j] => i < j
    /\ \A k \in 1..Len(appended) :
        (appended[k].by # None /\ detect_page_type(appended[k].by, Failed) = "work") =>
            \E i \in 1..Len(yielded) :
                /\ yielded[i].source_url = appended[k].by
                /\ yielded[i].skip_download
                /\ \A j \in 1..Len(yielded) :
                    yielded[j].source_url = appended[k].url => i < j
                /\ \A m \in FetchIndexes(appended[k].url) :
                    \A n \in FetchIndexes(appended[k].by) : n < m

\* a URL appended by a listing and again by a collection has been yielded, after the
\* collection and after every item whose URL was appended earlier
C14_Witness ==
    \E k \in 1..Len(appended) : \E j \in 1..Len(yielded) :
        /\ appended[k].by # None
        /\ detect_page_type(appended[k].by, Failed) = "work"
        /\ yielded[j].source_url = appended[k].url
        /\ FirstAppend(appended[k].url) < k
        /\ j >= 2

\* the step requests url with fetch_html and the request fails
FetchFails(url) ==
    /\ fetch_log' = Append(fetch_log, url)
    /\ site'[normalize_url(url)] = {Failed}

IsPrefix(s, t) == Len(s) <= Len(t) /\ SubSeq(t, 1, Len(s)) = s

\* C15: when fetch_html fails for the dequeued URL, the step yields nothing, leaves the
\* rest of the queue and the three context maps as they are, and the crawl is back in its
\* main loop; when it fails for a later pagination page, the walker stops, and the queue
\* keeps every entry it had and holds the works of the pages walked
C15_FetchFailureSkipsUrl ==
    [][/\ (pc = "main" /\ queue # <<>> /\ FetchFails(Head(queue))) =>
            /\ yielded' = yielded
            /\ queue' = Tail(queue)
            /\ collection_map' = collection_map
            /\ group_map' = group_map
            /\ author_prefixed_map' = author_prefixed_map
            /\ pc' = "main"
       /\ (pc = "listing" /\ walk.html.next # None /\ FetchFails(walk.html.next)) =>
            /\ yielded' = yielded
            /\ pc' = "main"
            /\ IsPrefix(queue, queue')
            /\ \A i \in 1..Len(walk.html.links) :
                walk.html.links[i] \in seen
                    \/ \E k \in 1..Len(queue') : queue'[k] = walk.html.links[i]
            /\ collection_map' = collection_map
            /\ author_prefixed_map' = author_prefixed_map]_vars

\* the fetch of a dequeued work URL failed and a URL queued behind it has been yielded
C15_Witness ==
    \E m \in 1..Len(fetch_log) : \E y \in Items :
        /\ detect_page_type(fetch_log[m], Failed) = "work"
        /\ site[normalize_url(fetch_log[m])] = {Failed}
        /\ \A n \in FetchIndexes(y.source_url) : m < n

\* the pages the listing walker has requested during the walk in progress
WalkPages == SubSeq(fetch_log, Len(fetch_log) - walk.page_count, Len(fetch_log))

\* C17: the listing walker never walks a page twice in one walk, so that pagination ends
\* on every link structure, and with a cap N > 0 it processes at most N pages of a listing
C17_PaginationStops ==
    pc = "listing" =>
        /\ \A a, b \in 1..Len(WalkPages) :
            a # b => normalize_url(WalkPages[a]) # normalize_url(WalkPages[b])
        /\ max_pages # 0 => walk.page_count + 1 <= max_pages

\* the context writes a parent page made for a URL under a key, as log positions
WritesBy(by, url, key) ==
    {n \in 1..Len(wlog) : wlog[n].by = by /\ wlog[n].url = url /\ wlog[n].key = key}

\* the item yielded for a URL, when there is one
ItemsOf(url) == {y \in Items : y.source_url = url}

\* C29: context is recorded before enqueue: every queue entry made by a listing page has
\* a group_root entry written by that page, every queue entry made by a collection has a
\* collection_root entry written by that collection, and a group_root and an
\* author_prefixed entry when the collection passes them on; the entries are in the
\* maps from the enqueue on, and were written before the URL is dequeued
C29_ContextBeforeEnqueue ==
    \A k \in 1..Len(appended) :
        LET by == appended[k].by
            url == appended[k].url
            Recorded(key, map) ==
                LET ws == WritesBy(by, url, key)
                IN /\ ws # {}
                   /\ url \in DOMAIN map
                   /\ \A i \in 1..Len(yielded) :
                       yielded[i].source_url = url => \A n \in ws : n <= yielded[i].at
        IN by # None =>
            IF detect_page_type(by, Failed) \in ListingTypes
            THEN Recorded("group_root", group_map)
            ELSE /\ Recorded("collection_root", collection_map)
                 /\ \A i \in 1..Len(yielded) :
                     yielded[i].source_url = by =>
                        /\ yielded[i].group_root # None => Recorded("group_root", group_map)
                        /\ yielded[i].author_prefixed # None =>
                               Recorded("author_prefixed", author_prefixed_map)

\* a URL enqueued by a collection that a listing page had enqueued has been dequeued and
\* yielded
C29_Witness ==
    \E k, l \in 1..Len(appended) :
        /\ appended[k].by # None
        /\ detect_page_type(appended[k].by, Failed) \in ListingTypes
        /\ appended[l].by = appended[k].url
        /\ ItemsOf(appended[l].url) # {}
        /\ \E p \in ItemsOf(appended[l].by) : p.group_root # None

\* the value the maps held for a URL under a key at log position at
ContextAt(url, key, at) ==
    LET ws == {n \in 1..at : wlog[n].url = url /\ wlog[n].key = key}
    IN IF ws = {} THEN None ELSE wlog[CHOOSE n \in ws : \A m \in ws : m <= n].val

\* the author_prefixed values a collection wrote for its children
ChildPrefixes(p) ==
    {wlog[n].val : n \in {i \in 1..Len(wlog) : wlog[i].by = p.source_url
                                               /\ wlog[i].key = "author_prefixed"}}

\* C30: a collection whose author is not "Auteurs divers" gives its children
\* "<Author> - <CollectionTitle>" exactly when it has an author, no group_root and no
\* author_prefixed of its own, and is then yielded with that value itself; otherwise it
\* gives them its own author_prefixed unchanged when it has one, and none when it has not
C30_AuthorPrefixedCascade ==
    \A i \in 1..Len(yielded) :
        (~IsLeaf(yielded[i]) /\ ~IsVariousAuthorsCollection(yielded[i])) =>
            LET p == yielded[i]
                group_root == ContextAt(p.source_url, "group_root", p.at)
                author_prefixed == ContextAt(p.source_url, "author_prefixed", p.at)
                fresh == sanitize_filename(p.author) \o SEP \o RootName(p.title, p.source_url)
            IN IF Truthy(p.author) /\ group_root = None /\ author_prefixed = None
               THEN ChildPrefixes(p) = {fresh} /\ p.author_prefixed = fresh
               ELSE IF author_prefixed # None
               THEN ChildPrefixes(p) = {author_prefixed} /\ p.author_prefixed = author_prefixed
               ELSE ChildPrefixes(p) = {} /\ p.author_prefixed = None

\* a collection with an author and no context has been yielded with a new prefix, and a
\* collection nested in it has been yielded with the same prefix, passed on unchanged
C30_Witness ==
    \E p, q \in Items :
        /\ ~IsLeaf(p) /\ ~IsLeaf(q) /\ ~IsVariousAuthorsCollection(q)
        /\ Truthy(p.author) /\ ~IsVariousAuthorsCollection(p)
        /\ ContextAt(p.source_url, "author_prefixed", p.at) = None
        /\ p.author_prefixed # None
        /\ q.source_url \in ChildrenOf(p)
        /\ ChildPrefixes(q) = {p.author_prefixed}

\* the parents whose writes are the entries the maps held for url at log position at:
\* for every key with an entry, the writer of its last write
LastWriters(url, at) ==
    {wlog[n].by : n \in {i \in 1..at :
                            /\ wlog[i].url = url
                            /\ \A m \in (i + 1)..at :
                                ~(wlog[m].url = url /\ wlog[m].key = wlog[i].key)}}

\* C33: the context fragments an item was yielded with (the entries of collection_map,
\* group_map and author_prefixed_map read for its URL when it was dequeued) were all
\* written by one and the same parent
C33_ContextFromOneParent ==
    \A j \in 1..Len(yielded) :
        Cardinality(LastWriters(yielded[j].source_url, yielded[j].at)) <= 1

\* C36: in a run started on one listing, every group_root the pages of the listing
\* wrote for the work URLs they list is the same name
C36_ListingPagesShareGroupRoot ==
    \A i, j \in 1..Len(wlog) :
        (/\ wlog[i].key = "group_root" /\ wlog[i].by[1] = "auteur"
         /\ wlog[j].key = "group_root" /\ wlog[j].by[1] = "auteur")
            => wlog[i].val = wlog[j].val

\* C34: two items yielded for different source URLs that both download files (neither
\* is a collection root) are resolved to different item directories
C34_DistinctItemsDistinctDirs ==
    \A i, j \in 1..Len(yielded) :
        (/\ i # j
         /\ yielded[i].source_url # yielded[j].source_url
         /\ ~yielded[i].skip_download /\ ~yielded[j].skip_download)
            => download_item(yielded[i], output_dir).paths.item_dir
                    # download_item(yielded[j], output_dir).paths.item_dir

\* the next-page link of a listing page that has been fetched, None when it has none
NextPage(u) ==
    IF u # None /\ u[1] = "auteur" /\ Cardinality(site[u]) = 1
    THEN LET c == CHOOSE x \in site[u] : TRUE
         IN IF c.fail THEN None ELSE c.next
    ELSE None

\* the page k next-page links after u
RECURSIVE PageAfter(_, _)
PageAfter(u, k) == IF k = 0 THEN u ELSE NextPage(PageAfter(u, k - 1))

\* no pagination chain of the pages fetched so far leads back to a page of the chain
PaginationAcyclic ==
    \A n \in ListingIds : \A k \in 1..Cardinality(ListingIds) :
        PageAfter(ListingUrl(n), k) # ListingUrl(n)

\* the pages the walker has left in the listing it is on, at most
PagesLeft == IF pc = "listing" THEN Cardinality(ListingIds) - walk.page_count ELSE 0

C5_PrefixedDecisionTable ==
    \A k \in 1..Len(res.out) :
        LET e == res.out[k]
            top == Join(output_dir, e.item.author_prefixed)
            nested == Join(top, e.item.collection_root)
        IN res.role # "plain" =>
            /\ e.paths.root_dir = output_dir
            /\ e.paths.has_collection_dir
            /\ res.role = "nested_root" =>
                   e.paths.collection_dir = nested /\ e.paths.item_dir = nested
            /\ res.role = "top_root" =>
                   e.paths.collection_dir = top /\ e.paths.item_dir = top
            /\ res.role = "nested_child" =>
                   /\ e.paths.collection_dir = nested
                   /\ e.paths.item_dir = Join(nested, e.item_name)
            /\ res.role = "top_child" =>
                   /\ e.paths.collection_dir = top
                   /\ e.paths.item_dir = Join(top, e.item_name)

\* C6: without author_prefixed the resolver returns, by first match,
\* (1) no collection_root, no group_root, own author, not skip_download: root_dir =
\*     output_root, no collection_dir, item_dir = output_root/"<Author> - <item_name>";
\* (2) group_root with collection_root: root_dir = output_root/group_root, collection_dir =
\*     root_dir/collection_root, item_dir = collection_dir if skip_download else
\*     collection_dir/item_name;
\* (3) group_root without collection_root: item_dir = output_root/group_root/item_name;
\* (4) otherwise root_dir = output_root, collection_dir = output_root/collection_root when
\*     a collection_root is present, item_dir as in (2)/(3)
C6_PlainDecisionTable ==
    \A k \in 1..Len(res.out) :
        LET e == res.out[k]
            it == e.item
            group_dir == Join(output_dir, it.group_root)
            root == IF Truthy(it.group_root) THEN group_dir ELSE output_dir
            cdir == Join(root, it.collection_root)
        IN res.role = "plain" =>
            IF ~Truthy(it.collection_root) /\ ~Truthy(it.group_root)
               /\ Truthy(it.author) /\ ~it.skip_download
            THEN /\ e.paths.root_dir = output_dir
                 /\ ~e.paths.has_collection_dir
                 /\ e.paths.item_dir =
                        Join(output_dir, sanitize_filename(it.author) \o SEP \o e.item_name)
            ELSE /\ e.paths.root_dir = root
                 /\ e.paths.has_collection_dir = Truthy(it.collection_root)
                 /\ Truthy(it.collection_root) =>
                        /\ e.paths.collection_dir = cdir
                        /\ e.paths.item_dir =
                               (IF it.skip_download THEN cdir ELSE Join(cdir, e.item_name))
                 /\ ~Truthy(it.collection_root) =>
                        e.paths.item_dir = Join(root, e.item_name)

\* a single album with its own author, outside any listing and collection, has been
\* resolved to "Author - Title" at the root
C6_Witness ==
    /\ res.role = "plain"
    /\ Len(res.out) >= 1
    /\ ~Truthy(res.item.collection_root) /\ ~Truthy(res.item.group_root)
    /\ Truthy(res.item.author) /\ ~res.item.skip_download
    /\ res.out[1].paths.item_dir =
           <<sanitize_filename(res.item.author) \o SEP \o res.out[1].item_name>>

\* '<Title> (Version N - Reader)', or '<Title> (Version N)' without reader
VersionedName(item, n) ==
    sanitize_filename(item.title) \o VERSION_OPEN \o n
        \o (IF Truthy(item.reader) THEN SEP \o item.reader ELSE <<>>) \o <<")">>

\* C8: two items with the same title and context whose URLs differ only by a version
\* marker resolve to distinct item directories, the versioned one named
\* '<Title> (Version N - Reader)' and the other '<Title>', in every download_item
\* implementation
C8_VersionedDirsDistinct ==
    \A impl \in {res.out, res.legacy} :
        (Len(impl) = 2 /\ Truthy(res.item.title) /\ ~res.item.skip_download) =>
            /\ impl[1].paths.item_dir # impl[2].paths.item_dir
            /\ impl[1].item_name = sanitize_filename(res.item.title)
            /\ impl[2].item_name = VersionedName(res.item, <<"2">>)

(***************************************************************************)
(* Properties of the crawl and the resolver together                       *)
(***************************************************************************)
\* inner is a sub-collection that the author-prefixed collection outer enqueued, and y is
\* a child that inner enqueued
NestedChild(outer, inner, y) ==
    /\ ~IsLeaf(outer) /\ Truthy(outer.author_prefixed)
    /\ ~IsLeaf(inner)
    /\ inner.source_url \in ChildrenOf(outer)
    /\ WritersBefore(inner.source_url, inner.at) = {outer.source_url}
    /\ y.source_url \in ChildrenOf(inner)
    /\ WritersBefore(y.source_url, y.at) = {inner.source_url}

\* C4: every child of a nested sub-collection is yielded with the outer collection's
\* author_prefixed, and the resolver gives it collection_dir =
\* output_root/<outer prefix>/<inner collection title> and item_dir =
\* collection_dir/<item_name>, whatever the author of the inner collection is
C4_NestedChildUnderOuterPrefix ==
    \A outer \in Items : \A inner \in Items : \A y \in Items :
        NestedChild(outer, inner, y) =>
            LET d == download_item(y, output_dir)
                collection_dir == <<outer.author_prefixed, RootName(inner.title, inner.source_url)>>
            IN /\ y.author_prefixed = outer.author_prefixed
               /\ d.paths.has_collection_dir
               /\ d.paths.collection_dir = collection_dir
               /\ d.paths.item_dir = Join(collection_dir, d.item_name)

(***************************************************************************)
(* Properties of the file writer                                           *)
(***************************************************************************)
\* C9: download_file never overwrites an existing file; when the sanitized name exists
\* the file is written under the first free name 'stem (i).ext', i = 1, 2, ..., for any
\* number of already-existing colliding names
C9_NeverOverwrites ==
    \A k \in 1..Len(written) :
        written[k].ok =>
            /\ ~written[k].existed
            /\ \/ written[k].dest_path = written[k].filename
               \/ \E i \in 1..(written[k].colliding + 1) :
                      written[k].dest_path = candidate(written[k].filename, i)

(***************************************************************************)
(* Properties of the run started from the CLI                              *)
(***************************************************************************)
\* the run has ended: the generator is exhausted and every download_item has returned
RunEnded == pc = "main" /\ queue = <<>> /\ run.futures = {}

\* the item directories of the run, and those of the children of the collective project
PlacedDirs == {run.placed[i].paths.item_dir : i \in 1..Len(run.placed)}
ChildDirs ==
    {run.placed[i].paths.item_dir :
        i \in {k \in 1..Len(run.placed) : run.placed[k].item.source_url[2] \in {13, 14, 15}}}

CollectiveFolder == AuteursDiversPrefix \o <<"T">>

\* C7: for one author-listing URL listing two works, one of them a three-child collective
\* project by "Auteurs divers", the run started from the CLI places the leaf at
\* Output/AuthorName/Work1, the collection root at Output/<Auteurs divers - Title> and
\* the three children at Output/<Auteurs divers - Title>/Child1..3, none of them under
\* Output/AuthorName
C7_CollectiveOutsideAuthorFolder ==
    (/\ RunEnded
     /\ run.failed = {}
     /\ run.urls = <<CliListing>>
     /\ \A u \in CliUrls : site[u] = {CliPage(u)}) =>
        /\ Len(yielded) = 5
        /\ PlacedDirs = {<<<<"G">>, <<"W">>>>, <<CollectiveFolder>>}
                        \cup {<<CollectiveFolder, Str(k)>> : k \in 1..3}
        /\ \A d \in ChildDirs : d[1] # <<"G">>

\* the run is over: run_pipeline has returned or an exception has left it
RunOver == run.aborted \/ RunEnded

\* C16: a download_item call that raises does not end the run, with one thread or with
\* several: when the run is over no URL is left pending in the queue and every item
\* yielded has been handed to download_item, which returned or raised
C16_DownloadFailureNeverAborts ==
    (RunOver /\ run.failed # {}) =>
        /\ \A k \in 1..Len(queue) : queue[k] \in seen
        /\ run.futures = {}
        /\ Len(run.placed) + Cardinality(run.failed) = Len(yielded)

\* the generator is where it was: no URL dequeued, no page fetched, no item yielded
GeneratorIdle == UNCHANGED <<queue, seen, pc, walk, yielded, fetch_log>>

\* C23: with threads > 1 run_pipeline never holds more than 2 x threads futures not yet
\* collected, and while it holds that many the crawl generator is not advanced: the next
\* step of the generator comes after a future has completed and been collected
C23_FuturesBounded ==
    /\ [](run.threads > 1 => Cardinality(run.futures) <= run.threads * 2)
    /\ [][(run.threads > 1 /\ Cardinality(run.futures) >= run.threads * 2) => GeneratorIdle]_vars

\* two threads, four futures held, none of them done, and a URL still in the queue
C23_Witness ==
    /\ run.threads = 2
    /\ Cardinality(run.futures) = 4
    /\ run.done = {}
    /\ \E k \in 1..Len(queue) : queue[k] \notin seen

\* the pages a page of the site links to, and the pages reached from an input URL
CliLinks(url) ==
    IF url = CliListing THEN CliPage(url).links ELSE CliPage(url).collection_urls
CliReach1(url) == {url} \cup {CliLinks(url)[i] : i \in 1..Len(CliLinks(url))}
CliReach(url) == UNION {CliReach1(v) : v \in CliReach1(url)}

\* the first input URL a page is reached from
InputOf(url) ==
    CHOOSE k \in 1..Len(run.urls) :
        /\ url \in CliReach(run.urls[k])
        /\ \A j \in 1..(k - 1) : url \notin CliReach(run.urls[j])

\* the futures submitted and still running or waiting for a worker
InFlight == run.futures \ run.done

\* C24: the input URLs are processed one at a time end to end: pages are fetched in the
\* order of the input URLs they belong to, no page of a later input URL is fetched while
\* an item of an earlier one is still being downloaded, and the items in flight belong
\* to one input URL
C24_OneInputAtATime ==
    /\ \A i, j \in 1..Len(fetch_log) :
        i < j => InputOf(fetch_log[i]) <= InputOf(fetch_log[j])
    /\ \A i \in InFlight : \A n \in 1..Len(fetch_log) :
        InputOf(fetch_log[n]) <= InputOf(yielded[i].source_url)
    /\ \A i, j \in InFlight :
        InputOf(yielded[i].source_url) = InputOf(yielded[j].source_url)

\* the results run_pipeline has read: those of the futures it no longer holds
ResultsRead == {p \in run.returned : p[1] \notin run.futures}

\* C40: run_pipeline counts every item the crawl yields and adds the length of the file
\* list of every download_item call that completed without exception exactly once:
\* at every moment downloaded_total is the sum over the results read so far, and when
\* run_pipeline returns every call has returned or raised and every result is read
C40_CountsEveryResultOnce ==
    /\ run.item_count = Len(yielded)
    /\ run.downloaded_total = SumFiles(ResultsRead)
    /\ (RunEnded /\ ~run.aborted) =>
        /\ {p[1] : p \in run.returned} \cup run.failed = 1..Len(yielded)
        /\ {p[1] : p \in run.returned} \cap run.failed = {}
        /\ run.downloaded_total = SumFiles(run.returned)

\* a run with two threads has returned: five items were yielded, so that futures were
\* drained on backpressure and at the end; one call raised, four returned two files each
C40_Witness ==
    /\ RunEnded
    /\ run.threads > 1
    /\ run.item_count = 5
    /\ Cardinality(run.failed) = 1
    /\ run.downloaded_total = 8

(***************************************************************************)
(* Properties of download_item                                             *)
(***************************************************************************)
\* the download_item calls of the run, finished or in progress
FinishedCalls == {dl.calls[k] : k \in 1..Len(dl.calls)}
Calls == FinishedCalls \cup (IF dl.cur = Idle THEN {} ELSE {dl.cur})

\* a duplicate is found: with --no-duplicates, audio files of the item were in its folder
\* when the call began; downloader_pipeline.download_item tests it, for an item that is
\* not a collection root, and pipeline.download_item has no such test
DuplicateFound(c) ==
    dl.impl = "new" /\ dl.args.no_duplicates /\ ~c.item.skip_download /\ c.files_existed

\* the states the item goes through, by the first condition that matches
ExpectedTrace(c) ==
    IF DuplicateFound(c) THEN <<"PENDING", "SHORTCUT">>
    ELSE IF dl.args.dry_run THEN <<"PENDING", "REPORTED">>
    ELSE IF dl.args.metadata_only THEN <<"PENDING", "METADATA_WRITTEN">>
    ELSE IF c.item.skip_download THEN <<"PENDING", "METADATA_WRITTEN">>
    ELSE <<"PENDING", "DOWNLOADING", "DONE">>

C19_DuplicateGetsShortcut ==
    \A c \in FinishedCalls :
        (dl.args.no_duplicates /\ c.was_registered) =>
            /\ c.state = "SHORTCUT"
            /\ c.fetched = <<>>
            /\ \E s \in dl.shortcuts :
                s.name = c.item_dir /\ s.target = dl.folder_registry[c.item.source_url]

\* C20: for an item marked skip_download no link of a download plan is ever requested,
\* whatever the flags and whatever its page offers: the call never enters DOWNLOADING
\* and ends in REPORTED or METADATA_WRITTEN
C20_CollectionRootNeverDownloads ==
    \A c \in Calls :
        c.item.skip_download =>
            /\ c.fetched = <<>>
            /\ \A i \in 1..Len(c.trace) : c.trace[i] # "DOWNLOADING"
            /\ c \in FinishedCalls => c.state \in {"REPORTED", "METADATA_WRITTEN"}

\* in a run without --dry-run and --metadata-only a collection root whose page has tracks
\* has been processed and its metadata exported
C20_Witness ==
    /\ ~dl.args.dry_run /\ ~dl.args.metadata_only
    /\ \E c \in FinishedCalls :
        /\ c.item.skip_download
        /\ build_download_plan(c.item) # <<>>
        /\ c.state = "METADATA_WRITTEN"
        /\ c.item_dir \in dl.exported

\* the download keys requested by the calls of the run other than c
FetchedByOthers(c) == UNION {LinkUrls(o.fetched) : o \in FinishedCalls \ {c}}

Names(files) == {files[i] : i \in 1..Len(files)}

LeftOnDisk(c) == {f.name : f \in {g \in dl.files : g.dir = c.item_dir /\ g.name \in Names(c.downloaded_files)}}

\* C25: every call that ends in DONE or METADATA_WRITTEN leaves a JSON sidecar in its item
\* directory whose downloaded_files are exactly the names of the files its downloads
\* left there, in both download_item implementations, also when every download failed
C25_SidecarListsFilesOnDisk ==
    \A c \in FinishedCalls :
        c.state \in {"DONE", "METADATA_WRITTEN"} =>
            /\ c.sidecar # None
            /\ c.sidecar.downloaded_files = LeftOnDisk(c)

C28_LoadMoreStops ==
    loop_more # Idle =>
        /\ \A i, j \in 1..Len(loop_more.fetched) :
            i < j => loop_more.fetched[i].url # loop_more.fetched[j].url
        /\ \A i \in 1..(Len(loop_more.fetched) - 1) :
            loop_more.fetched[i].content /\ loop_more.fetched[i].added > 0

(***************************************************************************)
(* Properties of DownloadRegistry                                          *)
(***************************************************************************)
\* the allow calls that have returned for the key, and those that returned True
AllowCalls(key) ==
    {n \in 1..Len(registry.returns) : registry.returns[n].key = key}
AllowedCalls(key) == {n \in AllowCalls(key) : registry.returns[n].result}

\* C22: for a non-empty download key, whatever the interleaving of the workers' allow
\* calls, exactly one of the calls returns True, and the key is downloaded by at most one
\* item of the run
C22_AllowOncePerKey ==
    registry # Idle =>
        \A key \in DownloadKeys \ {""} :
            /\ AllowCalls(key) # {} => Cardinality(AllowedCalls(key)) = 1
            /\ Cardinality({n \in 1..Len(registry.downloads) :
                                registry.downloads[n].key = key}) <= 1

\* two workers have called allow with the same key and their calls returned one right
\* after the other: one got True, the other False
C22_Witness ==
    /\ registry # Idle
    /\ \E m, n \in AllowCalls("k1") :
        /\ registry.returns[m].worker # registry.returns[n].worker
        /\ registry.returns[m].result
        /\ ~registry.returns[n].result
        /\ m = n + 1 \/ n = m + 1

\* the downloads of the key that have ended, and those that failed
DownloadsOf(key) ==
    {n \in 1..Len(registry.downloads) : registry.downloads[n].key = key}
FailedDownloadsOf(key) == {n \in DownloadsOf(key) : ~registry.downloads[n].ok}

\* C39: a download key is never released: once allow(key) has returned True for a
\* non-empty key, every later allow(key) of the run returns False and the key stays
\* in the registry, also when the download that claimed the key failed, so that no
\* later item attempts the failed file again
C39_KeyNeverReleased ==
    /\ [](registry # Idle =>
            \A key \in DownloadKeys \ {""} :
                /\ \A m, n \in AllowCalls(key) :
                    (m < n /\ registry.returns[m].result) => ~registry.returns[n].result
                /\ \A n \in AllowCalls(key) :
                    registry.returns[n].failed => ~registry.returns[n].result
                /\ \A d \in DownloadsOf(key) :
                    key \in registry.seen /\ DownloadsOf(key) = {d})
    /\ [][registry # Idle => registry.seen \subseteq registry'.seen]_vars

\* the download of k1 failed, and an allow call another worker made for k1 after the
\* failure returned False
C39_Witness ==
    /\ registry # Idle
    /\ \E d \in FailedDownloadsOf("k1") :
        \E n \in AllowCalls("k1") :
            /\ registry.returns[n].failed
            /\ registry.returns[n].worker # registry.downloads[d].worker
            /\ ~registry.returns[n].result

(***************************************************************************)
(* Properties of detect_page_type                                          *)
(***************************************************************************)
PageTypes ==
    {"author_listing", "voice_listing", "member_listing", "track", "work", "unknown"}

C31_StrictFallbackChain ==
    extraction # Idle =>
        LET e == extraction
        IN /\ \A i \in 1..Len(e.evaluated) :
                /\ e.evaluated[i] = i
                /\ \A j \in 1..(i - 1) : Tier(j, e.page) = {}
           /\ (e.pc = 7 /\ e.page.entry /\ block_links(e.page) # {}) =>
                /\ e.evaluated = <<1>>
                /\ e.result = SortedUrls(block_links(e.page))

\* the first tier returned although another block, which the second tier would have
\* taken, scores higher
C31_Witness ==
    /\ extraction # Idle
    /\ extraction.pc = 7
    /\ extraction.evaluated = <<1>>
    /\ extraction.result # <<>>
    /\ best_links(extraction.page) # {}
    /\ best_links(extraction.page) # block_links(extraction.page)

(***************************************************************************)
(* Properties of concurrent download_file calls                            *)
(***************************************************************************)
\* C32: two workers that both returned a path returned different paths, and each path
\* is a file of the directory holding the bytes its worker wrote
C32_ConcurrentWritersDistinctFiles ==
    writers # Idle =>
        \A a, b \in Workers :
            (/\ a # b
             /\ writers.workers[a].pc = "done" /\ writers.workers[a].result # None
             /\ writers.workers[b].pc = "done" /\ writers.workers[b].result # None)
            => /\ writers.workers[a].result # writers.workers[b].result
               /\ Get(writers.files, writers.workers[a].result) = a

(***************************************************************************)
(* Properties of the names                                                 *)
(***************************************************************************)
\* the values stored under a key for the items
StoredOf(key) ==
    {v \in {IF key = "collection_root" THEN names.items[i].collection_root
             ELSE IF key = "group_root" THEN names.items[i].group_root
             ELSE names.items[i].author_prefixed : i \in 1..Len(names.items)} : Truthy(v)}

\* sanitize_filename applied twice gives what it gives applied once, for every name of
\* the page
SanitizeIdempotent ==
    \A x \in {names.title, names.author, names.group_name, names.child_title} :
        sanitize_filename(sanitize_filename(x)) = sanitize_filename(x)

\* C35 as stated: sanitize_filename is idempotent, and every stored collection_root,
\* group_root and author_prefixed is left as it is when the resolver sanitizes it again
C35_StoredNamesStaySanitized ==
    names # Idle =>
        /\ SanitizeIdempotent
        /\ \A key \in ContextKeys : \A v \in StoredOf(key) : sanitize_filename(v) = v

\* C37: the folder paths resolved for an item lie inside output_root: followed name by
\* name from output_root, with '..' going one folder up, no path ever leaves it
C37_PathsInsideOutputRoot ==
    names # Idle =>
        \A i \in 1..Len(names.paths) :
            \A path \in {names.paths[i].root_dir, names.paths[i].collection_dir,
                          names.paths[i].item_dir} :
                \A k \in 1..Len(path) :
                    Cardinality({j \in 1..k : path[j] = <<".", ".">>})
                        <= Cardinality({j \in 1..k : path[j] # <<".", ".">>})

====
